---- MODULE Spec2Model ----
(***************************************************************************)
(* Model of nun's materialization engine: the store (nun/_db.py), the      *)
(* destination writer (nun/_dst.py), the sources (nun/_src/__init__.py,    *)
(* nun/_src/tar.py) and the per-resource orchestration of                  *)
(* Res._do_action (nun/_res.py).                                           *)
(*                                                                         *)
(* Conventions.                                                            *)
(*  - A file is a record [ino, data]: ino identifies the inode (0: no      *)
(*    file), data is the sequence of chunks it holds.  A chunk is the      *)
(*    version number of the body it comes from; 0 is a hole.  A directory  *)
(*    is a record whose data is DirData, a symbolic link one whose data is *)
(*    LinkData(v), v naming its target.  In a layout a member path is a    *)
(*    directory, a link or a file once and for all.                        *)
(*  - Every destination path p has three names on disk: p itself,          *)
(*    p.prt.nun (staging) and p.bak.nun (backup).                          *)
(*  - Python's None is 0 for ids and revisions, NoneDigest for digests,    *)
(*    NoSrcRow / NoDstRow for rows.                                        *)
(*  - blake2b is modelled as an injective function of the data.            *)
(*  - Three expressions of the source name an attribute that the library   *)
(*    object does not have: hash._update (nun/_dst.py:152,164,184,198),    *)
(*    Row.revision (nun/_src/__init__.py:231) and Row.get                  *)
(*    (nun/_db.py:353).  The model keeps both outcomes of each: the        *)
(*    lookup raises AttributeError, or it resolves to the digest update    *)
(*    or the column it names.  AttrOutcomes is that choice.                *)
(*  - Columns the claims never read (size, st_mode .. st_ctime, the tsk    *)
(*    timestamp) are left out of the rows.                                 *)
(*  - Spec drives the engine where Res._do_action does: a source is built  *)
(*    for resource ResOf(s) and its action is submitted to a worker; each  *)
(*    call the worker makes that reads or writes the disk or the store is  *)
(*    one step.  Sources of kind "api" are a Dst driven method by method.  *)
(*    The store starts empty and the disk holds no file.  Archives are     *)
(*    extracted with trusted=False and a resource has one listed source    *)
(*    at a time.  Res._remove is entered as Res._update is, on a Res that  *)
(*    has a res_id.                                                        *)
(*  - SpecPath applies SrcBase._set_path to member paths.                  *)
(*  - SpecTsk runs Tsk.apply and its ThreadPoolExecutor: submit raises     *)
(*    RuntimeError after shutdown, shutdown(wait=True) lets the queued     *)
(*    work run, a worker that waits for a future keeps its thread.  The    *)
(*    executor is built without max_workers, so the number of its threads  *)
(*    is a function of the machine (cpu count + 4, at most 32); it is an   *)
(*    input of the Tsk here, drawn from 1..PoolWorkers.                    *)
(***************************************************************************)
EXTENDS Integers, Sequences, FiniteSets, TLC

\* ---------------------------------------------------------------- bounds
BodyLen == 2        \* chunks of a remote body
MaxTsk == 2         \* tsk rows (Tsk.__init__ calls)
MaxRuns == 2        \* source actions started
MaxEdits == 1       \* edits of a file by the user
MaxRemote == 1      \* changes of the remote content
MaxSegs == 3        \* segments of a member path
MaxStrip == 1       \* strip_components
MaxCrashes == 1     \* crashes of the process
MaxResTsk == 3      \* tsk rows of SpecRes
MaxRows == 2        \* rows of a table handed to a store call
MaxTicks == 4       \* advances of the clock of SpecSrg
MaxSets == 3        \* set_cache calls of SpecSrg
MaxCalls == 2       \* calls of _github_api of SpecApi
MaxLimited == 2     \* answers 403 with no request left of SpecApi
MaxPolls == 2       \* polls of /rate_limit that report 0 of SpecApi
PoolWorkers == 4    \* the largest number of worker threads of the executor

Paths == {"p1", "p2"}
Srcs == {"s1", "s2"}
Versions == {1, 2}
\* the content a user writes: no version of a remote body
UserVersion == 1 + Cardinality(Versions)

\* ---------------------------------------------------------------- values
NoFile == [ino |-> 0, data |-> << >>]
NoneDigest == << -1 >>
EmptyStr == << >>
NoSrcRow == [id |-> 0, tsk_id |-> 0, res_id |-> 0, name |-> "None", revision |-> 0]
NoDstRow == [id |-> 0, tsk_id |-> 0, res_id |-> 0, src_id |-> 0, path |-> "None",
             digest |-> NoneDigest]
AttrOutcomes == {"resolve", "raise"}
\* the messages Dst.cancel raises a CancelException with
CancelExceptions == {"Conflict", "UserModified", "AlreadyExists"}
\* what a directory holds, as the data of its record; its digest is '0'
DirData == << 0 >>
DirDigest == << 0 >>
\* the name of an archive member that _set_path rejects ("../x", "/x")
BadName == ".."

\* what a symbolic link holds: the target of version v of the archive
LinkData(v) == << v + UserVersion >>

Exists(f) == f.ino # 0
IsDir(f) == Exists(f) /\ f.data = DirData
Truthy(x) == x # NoneDigest /\ x # EmptyStr

\* hashlib.blake2b(data).hexdigest(): never the empty string
Hash(data) == << 0 >> \o data

Body(v) == [i \in 1..BodyLen |-> v]

Max(S) == CHOOSE x \in S : \A y \in S : y <= x
Min(S) == CHOOSE x \in S : \A y \in S : x <= y

\* ----------------------------------------------------------------- store
\* SELECT * FROM dst WHERE path=? ; fetchone(): the first row in rowid order
get_dst(rows, dst_path) ==
    LET hit == {r \in rows : r.path = dst_path}
    IN  IF hit = {} THEN NoDstRow
        ELSE CHOOSE r \in hit : \A q \in hit : r.id <= q.id

get_dst_by_src(rows, src_id) == {r \in rows : r.src_id = src_id}

get_src(rows, res_id, src_name) ==
    LET hit == {r \in rows : r.res_id = res_id /\ r.name = src_name}
    IN  IF res_id = 0 \/ hit = {} THEN NoSrcRow
        ELSE CHOOSE r \in hit : \A q \in hit : r.id <= q.id

get_src_by_res(rows, res_id) == {r \in rows : r.res_id = res_id}

\* cursor.lastrowid of an INSERT into an INTEGER PRIMARY KEY table
LastRowId(rows) == IF rows = {} THEN 1 ELSE Max({r.id : r \in rows}) + 1

\* _sql_update + cursor.execute: none holds None for every column of vals.
\* attr is the outcome of ref_values.get when ref_values is a sqlite3.Row.
sql_update(rows, row_id, ref, vals, none, attr) ==
    LET rid == IF row_id = 0 THEN ref.id ELSE row_id
        isRow == ref.id # 0
        refd == IF isRow THEN ref ELSE none
        params == {c \in DOMAIN vals : vals[c] # none[c] /\ vals[c] # refd[c]}
        exc == IF isRow /\ attr = "raise" THEN "AttributeError"
               ELSE IF params = {} THEN "OperationalError"
               ELSE ""
    IN  [rows |-> IF exc # "" THEN rows
                  ELSE {IF r.id = rid
                        THEN [c \in DOMAIN r |-> IF c \in params THEN vals[c] ELSE r[c]]
                        ELSE r : r \in rows},
         id |-> rid, exc |-> exc]

sql_insert_or_update(rows, row_id, ref, vals, none, attr) ==
    IF row_id # 0 \/ ref.id # 0
    THEN sql_update(rows, row_id, ref, vals, none, attr)
    ELSE [rows |-> rows \cup {[id |-> LastRowId(rows)] @@ vals},
          id |-> LastRowId(rows), exc |-> ""]

SrcNone == [tsk_id |-> 0, res_id |-> 0, name |-> "None", revision |-> 0]
DstNone == [tsk_id |-> 0, res_id |-> 0, src_id |-> 0, path |-> "None",
            digest |-> NoneDigest]

\* set_src is always called without src_id (SrcBase._db_update)
set_src(rows, ref_values, tsk_id, res_id, name, revision, attr) ==
    sql_insert_or_update(rows, 0, ref_values,
        [tsk_id |-> tsk_id, res_id |-> res_id, name |-> name, revision |-> revision],
        SrcNone, attr)

\* set_dst hands src_id to _sql_insert_or_update in the place of row_id
set_dst(rows, ref_values, tsk_id, res_id, src_id, path, digest, attr) ==
    sql_insert_or_update(rows, src_id, ref_values,
        [tsk_id |-> tsk_id, res_id |-> res_id, src_id |-> src_id, path |-> path,
         digest |-> digest],
        DstNone, attr)

\* DB.del_src: the src row and the dst rows of the source
del_src(store, src_id) ==
    [store EXCEPT !.src = {r \in @ : r.id # src_id},
                  !.dst = {r \in @ : r.src_id # src_id}]

\* DB.del_res
del_res(store, res_id) == [store EXCEPT !.res = {r \in @ : r.id # res_id}]

\* ----------------------------------------------------- filesystem of a path
NoNames == [file |-> NoFile, part |-> NoFile, bak |-> NoFile]

\* file.write(chunk) on a descriptor of inode ino at offset pos (in chunks)
WriteAt(data, pos, chunk) ==
    [i \in 1..Max({Len(data), pos + 1}) |->
        IF i = pos + 1 THEN chunk ELSE IF i <= Len(data) THEN data[i] ELSE 0]

WriteFd(f, ino, pos, chunk) ==
    [n \in DOMAIN f |->
        IF f[n].ino = ino /\ ino # 0
        THEN [ino |-> ino, data |-> WriteAt(f[n].data, pos, chunk)]
        ELSE f[n]]

\* ------------------------------------------------------------ Dst (_dst.py)
NoDst == [path |-> "None", type |-> "file", force |-> FALSE, db_info |-> NoDstRow,
          hash_old |-> NoneDigest, hash_new |-> NoneDigest, hash_cur |-> NoneDigest,
          path_part |-> FALSE, path_bak |-> FALSE, file_obj |-> 0, pos |-> 0,
          hash_obj |-> << >>, update |-> FALSE]

\* Dst._check_current: the hash of the file at the path, "" when there is none
HashCurrent(f) == IF Exists(f.file) THEN Hash(f.file.data) ELSE EmptyStr

\* Dst._check_current of a "dir" destination: '0' if isdir(path) else ''
HashCurrentDir(f) == IF IsDir(f.file) THEN DirDigest ELSE EmptyStr

\* h._update(chunk) is reached only when the file holds at least one chunk
CheckRaises(d, f, attr) ==
    d.hash_cur = NoneDigest /\ Exists(f.file) /\ Len(f.file.data) > 0 /\ attr = "raise"

check_current(d, f) == IF d.hash_cur = NoneDigest THEN HashCurrent(f) ELSE d.hash_cur

\* Dst.cancel without its final raise: [d, f, exc]
Dst_cancel(d, f) ==
    LET f1 == IF d.path_part THEN [f EXCEPT !.part = NoFile] ELSE f
        bakFound == d.path_bak /\ Exists(f1.bak)
    IN  [d |-> [d EXCEPT !.file_obj = 0, !.path_part = FALSE,
                         !.path_bak = IF bakFound THEN TRUE ELSE FALSE],
         f |-> f1,
         \* remove_existing(self._path_part) with _path_part already None
         exc |-> IF bakFound THEN "TypeError" ELSE ""]

\* Dst.__init__: ino is the inode a newly created staging file gets; a "dir"
\* destination has no staging name and no file object, a "link" destination
\* has a staging name and no file object
Dst_init(rows, path, res_id, force, dst_type, f, ino, attr) ==
    LET info == get_dst(rows, path)
        hash_old == IF info # NoDstRow THEN info.digest ELSE NoneDigest
        d0 == [NoDst EXCEPT !.path = path, !.type = dst_type, !.force = force,
                            !.db_info = info, !.hash_old = hash_old]
        check == ~force /\ Truthy(hash_old)
        cur == IF dst_type = "dir" THEN HashCurrentDir(f) ELSE HashCurrent(f)
        d1 == IF check THEN [d0 EXCEPT !.hash_cur = cur] ELSE d0
        part == IF Exists(f.part) THEN [ino |-> f.part.ino, data |-> << >>]
                ELSE [ino |-> ino, data |-> << >>]
    IN  IF info # NoDstRow /\ res_id # info.res_id
        THEN [d |-> d0, f |-> f, exc |-> "Conflict"]
        ELSE IF check /\ dst_type # "dir" /\ CheckRaises(d0, f, attr)
        THEN [d |-> d0, f |-> f, exc |-> "AttributeError"]
        ELSE IF check /\ hash_old # cur
        THEN [d |-> d1, f |-> f, exc |-> "UserModified"]
        ELSE IF dst_type = "dir"
        THEN [d |-> d1, f |-> f, exc |-> ""]
        ELSE IF dst_type = "link"
        THEN [d |-> [d1 EXCEPT !.path_part = TRUE], f |-> f, exc |-> ""]
        ELSE [d |-> [d1 EXCEPT !.path_part = TRUE, !.file_obj = part.ino],
              f |-> [f EXCEPT !.part = part], exc |-> ""]

\* Dst.write of one chunk (one turn of the copy loop, or write(bytes))
Dst_write(d, f, chunk, attr) ==
    IF attr = "raise"
    THEN [d |-> d, f |-> f, exc |-> "AttributeError"]
    ELSE [d |-> [d EXCEPT !.hash_obj = Append(@, chunk), !.pos = @ + 1],
          f |-> WriteFd(f, d.file_obj, d.pos, chunk), exc |-> ""]

\* Dst.write of a "dir" destination: makedirs(path, exist_ok=True), at once
\* and at the final path; ino is the inode a new directory gets
Dst_write_dir(d, f, ino) ==
    IF IsDir(f.file) THEN [d |-> d, f |-> f, exc |-> ""]
    ELSE IF Exists(f.file) THEN [d |-> d, f |-> f, exc |-> "FileExistsError"]
    ELSE [d |-> d, f |-> [f EXCEPT !.file = [ino |-> ino, data |-> DirData]],
          exc |-> ""]

\* Dst.write of a "link" destination: symlink(data, path_part), then the
\* digest update; ino is the inode the staging link gets
Dst_write_link(d, f, target, ino, attr) ==
    IF Exists(f.part) THEN [d |-> d, f |-> f, exc |-> "FileExistsError"]
    ELSE LET f1 == [f EXCEPT !.part = [ino |-> ino, data |-> target]]
         IN  IF attr = "raise" THEN [d |-> d, f |-> f1, exc |-> "AttributeError"]
             ELSE [d |-> [d EXCEPT !.hash_obj = target], f |-> f1, exc |-> ""]

\* Dst.close: it returns at once when there is no file object
Dst_close(d, f, attr) ==
    LET d1 == [d EXCEPT !.file_obj = 0, !.hash_new = Hash(d.hash_obj)]
        cur == check_current(d1, f)
        d2 == [d1 EXCEPT !.hash_cur = cur]
        c1 == Dst_cancel(d1, f)
        c2 == Dst_cancel(d2, f)
    IN  IF d.file_obj = 0 THEN [d |-> d, f |-> f, exc |-> ""]
        ELSE IF d1.hash_old = d1.hash_new THEN c1
        ELSE IF ~d1.force /\ ~Truthy(d1.hash_old) /\ CheckRaises(d1, f, attr)
        THEN [d |-> d1, f |-> f, exc |-> "AttributeError"]
        ELSE IF ~d1.force /\ ~Truthy(d1.hash_old) /\ Truthy(cur)
        THEN IF d1.hash_new # cur
             THEN [c2 EXCEPT !.exc = IF c2.exc = "" THEN "AlreadyExists" ELSE c2.exc]
             ELSE c2
        ELSE [d |-> [(IF ~d1.force /\ ~Truthy(d1.hash_old) THEN d2 ELSE d1)
                        EXCEPT !.update = TRUE],
              f |-> f, exc |-> ""]

\* Dst.move, first rename: rename(path, path + _BAK_EXT)
Dst_move_bak(d, f) ==
    IF d.update /\ Exists(f.file)
    THEN [d |-> [d EXCEPT !.path_bak = TRUE],
          f |-> [f EXCEPT !.bak = f.file, !.file = NoFile], exc |-> ""]
    ELSE [d |-> d, f |-> f, exc |-> ""]

\* Dst.move, second rename: rename(path_part, path), then copystat and utime
\* (stat is the outcome of those two: "raise" is an OSError of either)
Dst_move_part(d, f, stat) ==
    IF ~d.update THEN [d |-> d, f |-> f, exc |-> ""]
    ELSE IF ~Exists(f.part) THEN [d |-> d, f |-> f, exc |-> "FileNotFoundError"]
    ELSE IF stat = "raise"
    THEN [d |-> d, f |-> [f EXCEPT !.file = f.part, !.part = NoFile], exc |-> "OSError"]
    ELSE [d |-> [d EXCEPT !.path_part = FALSE],
          f |-> [f EXCEPT !.file = f.part, !.part = NoFile], exc |-> ""]

\* Dst.clear
Dst_clear(d, f) ==
    IF d.path_bak
    THEN [d |-> [d EXCEPT !.path_bak = FALSE], f |-> [f EXCEPT !.bak = NoFile], exc |-> ""]
    ELSE [d |-> d, f |-> f, exc |-> ""]

\* Dst.db_update: [rows, id, exc]
Dst_db_update(d, f, rows, tsk_id, res_id, src_id, attr) ==
    IF d.update \/ d.db_info = NoDstRow
    THEN IF ~Exists(f.file)
         THEN [rows |-> rows, id |-> 0, exc |-> "FileNotFoundError"]
         ELSE set_dst(rows, d.db_info, tsk_id, res_id, src_id, d.path, d.hash_new, attr)
    ELSE [rows |-> rows, id |-> d.db_info.id, exc |-> ""]

\* ------------------------------------------------------------------ state
VARIABLES
    fs,      \* [Paths -> [file, part, bak]]: the names of each destination path
    db,      \* the store: [tsk: number of tsk rows, res: rows, src: rows, dst: rows]
    remote,  \* [Srcs -> [kind, rev, members, dirs, links, bad, res, listed]]: what
             \* the platform serves
    job,     \* [Srcs -> the Src object, its Dst objects and its position]
    cnt,     \* [runs, edits, remote, crashes]: what the bounds count
    ext,     \* one call of SrcBase._set_path: its arguments and its result
    pool,    \* one Tsk: its arguments, its executor and the work submitted to it
    rs,      \* one Res.apply: the Res object and its position
    sq,      \* one call of _sql_insert_or_update: its arguments and its result
    cache,   \* the files of the cache directory, the clock and the last lookup
    gh       \* one call of Plt._github_api and the answers of the platform

vars == << fs, db, remote, job, cnt, ext, pool, rs, sq, cache, gh >>

\* the resource of a source (Res._res_id handed to get_src_list)
ResOf(s) == remote[s].res

ArchiveOrder(S) == SelectSeq(<< "p1", "p2" >>, LAMBDA p : p \in S)

EmptyMap == [p \in {} |-> 0]
MemberMaps == UNION {[D -> Versions] : D \in SUBSET Paths}

\* edited: the paths of the source that held content written by the user when
\* the action was started (read by the properties only)
\* before: what each path of the source held when the action was started
\* (read by the properties only)
\* src_read: the ids of the src rows Res._remove has read; src_rows: those
\* whose _remove_src has not run yet
\* cancelled: the paths whose Dst has raised a CancelException in this action
\* (read by the properties only)
\* crashed: the Dst was made after the process died in the write protocol of
\* the Dst before it; before is then what the path held when that one was made
\* (read by the properties only)
IdleJob == [pc |-> "idle", action |-> "none", update |-> FALSE, force |-> FALSE,
            tsk_id |-> 0, revision |-> 0, db_info |-> NoSrcRow, src_id |-> 0,
            dst_ids |-> {}, dst_ids_tag |-> "None", body |-> EmptyMap,
            todo |-> << >>, cur |-> NoDst, dsts |-> << >>, i |-> 0,
            exc |-> "", result |-> "none", edited |-> {}, before |-> EmptyMap,
            src_read |-> {}, src_rows |-> {}, cancelled |-> {}, crashed |-> FALSE]

\* no call of _set_path: the member names of Layouts are plain names
NoCall == [pc |-> "none"]

\* no Tsk
NoTsk == [pc |-> "none"]

\* no Res.apply, no upsert, no cache directory, no API call
NoRes == [pc |-> "none"]
NoSql == [pc |-> "none"]
NoCache == [pc |-> "none"]
NoApi == [pc |-> "none"]

\* A source of the platform: kind is the adapter ("file": a plain download,
\* "tar": an archive, "api": a Dst driven by hand, "none": no source), members
\* maps each destination path to the version of its content, dirs are the
\* members that are directories, bad is the position in the archive of a
\* member whose path _set_path rejects (0: there is none), res is the resource
\* the source belongs to and listed tells whether get_src_list yields it.
\* links are the members that are symbolic links (WithLinks sets them).
RemoteSrc(kind, rev, members, dirs, bad, res, listed) ==
    [kind |-> kind, rev |-> rev, members |-> members, dirs |-> dirs, links |-> {},
     bad |-> bad, res |-> res, listed |-> listed]

WithLinks(r, links) == [r EXCEPT !.links = links]

NoRemote(res) == RemoteSrc("none", 0, EmptyMap, {}, 0, res, FALSE)

\* the layouts of the remote side the model starts from: an archive of two
\* files; two resources whose file goes to the same path; a Dst driven by
\* hand; an archive of a directory and a file, with or without a rejected
\* member; a resource whose only source is s2 now and s1 later; an archive
\* of a file and a link
Layouts ==
    { [s1 |-> RemoteSrc("tar", 1, [p \in Paths |-> 1], {}, 0, 1, TRUE),
       s2 |-> NoRemote(2)],
      [s1 |-> RemoteSrc("file", 1, [p \in {"p1"} |-> 1], {}, 0, 1, TRUE),
       s2 |-> RemoteSrc("file", 1, [p \in {"p1"} |-> 2], {}, 0, 2, TRUE)],
      [s1 |-> RemoteSrc("api", 0, [p \in {"p1"} |-> 1], {}, 0, 1, TRUE),
       s2 |-> NoRemote(2)] }
    \cup { [s1 |-> RemoteSrc("tar", 1, [p \in Paths |-> 1], {"p1"}, bad, 1, TRUE),
            s2 |-> NoRemote(2)] : bad \in 0..(Cardinality(Paths) + 1) }
    \cup { [s1 |-> RemoteSrc("file", 1, [p \in {"p1"} |-> 1], {}, 0, 1, FALSE),
            s2 |-> RemoteSrc("file", 1, [p \in {"p2"} |-> 1], {}, 0, 1, TRUE)],
           [s1 |-> WithLinks(RemoteSrc("tar", 1, [p \in Paths |-> 1], {}, 0, 1, TRUE),
                             {"p2"}),
            s2 |-> NoRemote(2)] }

\* the member names of an archive in the order the archive yields them
RECURSIVE InsertAt(_, _, _)
InsertAt(seq, k, x) ==
    IF k <= 1 \/ seq = << >> THEN << x >> \o seq
    ELSE << Head(seq) >> \o InsertAt(Tail(seq), k - 1, x)

MembersOf(r) ==
    IF r.bad = 0 THEN ArchiveOrder(DOMAIN r.members)
    ELSE InsertAt(ArchiveOrder(DOMAIN r.members), r.bad, BadName)

Init ==
    /\ fs = [p \in Paths |-> NoNames]
    /\ db = [tsk |-> 0, res |-> {}, src |-> {}, dst |-> {}]
    /\ remote \in Layouts
    /\ job = [s \in Srcs |-> IdleJob]
    /\ cnt = [runs |-> 0, edits |-> 0, remote |-> 0, crashes |-> 0]
    /\ ext = NoCall
    /\ pool = NoTsk
    /\ rs = NoRes /\ sq = NoSql /\ cache = NoCache /\ gh = NoApi

Running(s) == job[s].pc # "idle"

\* the smallest inode number no name and no open descriptor refers to
UsedInos ==
    {fs[p][n].ino : p \in Paths, n \in {"file", "part", "bak"}}
    \cup {job[s].cur.file_obj : s \in Srcs}
FreshIno == Min({n \in 1..(3 * Cardinality(Paths) + Cardinality(Srcs) + 1) :
                  n \notin UsedInos})

\* every Dst of the sequence cancelled (Dst.__del__ / Dst.__exit__)
RECURSIVE CancelAll(_, _)
CancelAll(ds, f) ==
    IF ds = << >> THEN f
    ELSE LET d == Head(ds)
         IN  CancelAll(Tail(ds), [f EXCEPT ![d.path] = Dst_cancel(d, f[d.path]).f])

LiveDsts(j) == (IF j.cur = NoDst THEN << >> ELSE << j.cur >>) \o j.dsts

\* A source action ends with an exception.  Inside the with block of download
\* Dst.__exit__ cancels the Dst and an exception of that cancel replaces the
\* first one; everywhere else the Dst objects are dropped, Dst.__del__ cancels
\* each and its exceptions are ignored.  f is the filesystem at the raise.
Failed(j, f, exc) ==
    LET ds == LiveDsts(j)
        c == Dst_cancel(ds[1], f[ds[1].path])
    IN  [j EXCEPT !.pc = "idle", !.result = "failed", !.cur = NoDst, !.dsts = << >>,
                  !.todo = << >>, !.i = 0,
                  !.exc = IF /\ j.action = "download"
                             /\ j.pc \in {"write", "move_bak", "move_part", "clear"}
                             /\ ds # << >>
                             /\ c.exc # ""
                          THEN c.exc ELSE exc]

FailedFs(j, f) == CancelAll(LiveDsts(j), f)

\* the position after the last member was staged
AfterStage(j) ==
    IF j.dsts = << >> THEN [j EXCEPT !.pc = "set_src", !.i = 0]
    ELSE [j EXCEPT !.pc = "move_bak", !.i = 1]

\* the position after a member was staged or skipped
NextMember(j) ==
    LET j1 == [j EXCEPT !.cur = NoDst, !.todo = Tail(j.todo)]
    IN  IF j1.todo # << >> THEN [j1 EXCEPT !.pc = "init"] ELSE AfterStage(j1)

\* ---------------------------------------------------------------- actions
\* Tsk.__init__: DB.set_tsk() adds a tsk row
NewTsk ==
    /\ db.tsk < MaxTsk
    /\ \A s \in Srcs : ~Running(s)
    /\ db' = [db EXCEPT !.tsk = @ + 1]
    /\ UNCHANGED << fs, remote, job, cnt, ext, pool, rs, sq, cache, gh >>

\* Res._do_action: get_src_list builds the source (SrcBase.__init__) and the
\* action is submitted.  update is FALSE from Res._create, TRUE from Res._update.
Start(s, update, force) ==
    /\ ~Running(s)
    /\ remote[s].kind \in {"file", "tar"}
    /\ remote[s].listed
    /\ db.tsk >= 1
    /\ cnt.runs < MaxRuns
    /\ LET info == get_src(db.src, ResOf(s), s)
       IN  job' = [job EXCEPT ![s] =
               [IdleJob EXCEPT !.pc = "guard",
                               !.action = IF remote[s].kind = "file"
                                          THEN "download" ELSE "extract",
                               !.update = update, !.force = force,
                               !.tsk_id = db.tsk, !.revision = remote[s].rev,
                               !.db_info = info, !.src_id = info.id,
                               !.edited = {p \in DOMAIN remote[s].members :
                                             fs[p].file.data = Body(UserVersion)},
                               !.before = [p \in DOMAIN remote[s].members |->
                                             fs[p].file]]]
    /\ cnt' = [cnt EXCEPT !.runs = @ + 1]
    /\ UNCHANGED << fs, db, remote, ext, pool, rs, sq, cache, gh >>

\* SrcBase._cancel, then the head of download (up to Dst) or of extract
\* (_get and tarfile.open)
Guard(s) ==
    LET j == job[s]
        reads == j.update /\ ~j.force /\ j.db_info # NoSrcRow
    IN  /\ j.pc = "guard"
        /\ \E attr \in AttrOutcomes :
             job' = [job EXCEPT ![s] =
                 IF reads /\ attr = "raise" THEN Failed(j, fs, "AttributeError")
                 ELSE IF reads /\ j.revision = j.db_info.revision
                 THEN [j EXCEPT !.pc = "orphans", !.dst_ids_tag = "True",
                                !.result = "skipped"]
                 ELSE IF j.action = "download"
                 THEN [j EXCEPT !.pc = "init",
                                !.todo = ArchiveOrder(DOMAIN remote[s].members)]
                 ELSE LET j1 == [j EXCEPT !.body = remote[s].members,
                                          !.todo = MembersOf(remote[s])]
                      IN  IF j1.todo = << >> THEN AfterStage(j1)
                          ELSE [j1 EXCEPT !.pc = "init"]]
        /\ UNCHANGED << fs, db, remote, cnt, ext, pool, rs, sq, cache, gh >>

\* the next member of the archive is one _set_path rejects (the source is
\* extracted with trusted=False): PermissionError leaves _extract
Reject(s) ==
    LET j == job[s]
    IN  /\ j.pc = "init"
        /\ Head(j.todo) = BadName
        /\ fs' = FailedFs(j, fs)
        /\ job' = [job EXCEPT ![s] = Failed(j, fs, "PermissionError")]
        /\ UNCHANGED << db, remote, cnt, ext, pool, rs, sq, cache, gh >>

\* Dst(path, ...) of download (force handed on) or of a tar member (no force,
\* the type of the member); a CancelException skips the member of an archive
DstInit(s) ==
    LET j == job[s]
        path == Head(j.todo)
        force == IF j.action = "download" THEN j.force ELSE FALSE
        dst_type == IF j.action = "extract" /\ path \in remote[s].dirs THEN "dir"
                    ELSE IF j.action = "extract" /\ path \in remote[s].links
                    THEN "link" ELSE "file"
    IN  /\ j.pc = "init"
        /\ Head(j.todo) # BadName
        /\ \E attr \in AttrOutcomes :
             LET r == Dst_init(db.dst, path, ResOf(s), force, dst_type, fs[path],
                               FreshIno, attr)
             IN  IF r.exc = ""
                 THEN /\ fs' = [fs EXCEPT ![path] = r.f]
                      /\ job' = [job EXCEPT ![s] =
                             [j EXCEPT !.pc = "write", !.cur = r.d,
                                       !.body = IF j.action = "download"
                                                THEN remote[s].members ELSE j.body]]
                 ELSE IF r.exc \in CancelExceptions /\ j.action = "extract"
                 THEN /\ fs' = fs
                      /\ job' = [job EXCEPT ![s] =
                             NextMember([j EXCEPT !.cancelled = @ \cup {path}])]
                 ELSE /\ fs' = FailedFs(j, fs)
                      /\ job' = [job EXCEPT ![s] =
                             Failed([j EXCEPT !.cancelled =
                                        IF r.exc \in CancelExceptions
                                        THEN @ \cup {path} ELSE @], fs, r.exc)]
        /\ UNCHANGED << db, remote, cnt, ext, pool, rs, sq, cache, gh >>

\* Dst.write and Dst.close of a "dir" member: the directory is made at once,
\* close has nothing to do
MakeDir(s) ==
    LET j == job[s]
        path == j.cur.path
        r == Dst_write_dir(j.cur, fs[path], FreshIno)
    IN  /\ j.pc = "write"
        /\ j.cur.type = "dir"
        /\ IF r.exc = ""
           THEN /\ fs' = [fs EXCEPT ![path] = r.f]
                /\ job' = [job EXCEPT ![s] =
                       NextMember([j EXCEPT !.dsts = Append(j.dsts, r.d)])]
           ELSE /\ fs' = FailedFs(j, fs)
                /\ job' = [job EXCEPT ![s] = Failed(j, fs, r.exc)]
        /\ UNCHANGED << db, remote, cnt, ext, pool, rs, sq, cache, gh >>

\* Dst.write and Dst.close of a "link" member: the staging link is made and
\* close returns at once, the Dst has no file object
WriteLink(s) ==
    LET j == job[s]
        path == j.cur.path
    IN  /\ j.pc = "write"
        /\ j.cur.type = "link"
        /\ \E attr \in AttrOutcomes :
             LET r == Dst_write_link(j.cur, fs[path], LinkData(j.body[path]), FreshIno,
                                     attr)
                 c == Dst_close(r.d, r.f, attr)
                 f1 == [fs EXCEPT ![path] = r.f]
             IN  IF r.exc = ""
                 THEN /\ fs' = [fs EXCEPT ![path] = c.f]
                      /\ job' = [job EXCEPT ![s] =
                             NextMember([j EXCEPT !.dsts = Append(j.dsts, c.d)])]
                 ELSE /\ fs' = FailedFs(j, f1)
                      /\ job' = [job EXCEPT ![s] = Failed(j, f1, r.exc)]
        /\ UNCHANGED << db, remote, cnt, ext, pool, rs, sq, cache, gh >>

\* one turn of the copy loop of Dst.write
Write(s) ==
    LET j == job[s]
        path == j.cur.path
    IN  /\ j.pc = "write"
        /\ j.cur.type = "file"
        /\ j.cur.pos < BodyLen
        /\ \E attr \in AttrOutcomes :
             LET r == Dst_write(j.cur, fs[path], j.body[path], attr)
             IN  IF r.exc = ""
                 THEN /\ fs' = [fs EXCEPT ![path] = r.f]
                      /\ job' = [job EXCEPT ![s] = [j EXCEPT !.cur = r.d]]
                 ELSE /\ fs' = FailedFs(j, fs)
                      /\ job' = [job EXCEPT ![s] = Failed(j, fs, r.exc)]
        /\ UNCHANGED << db, remote, cnt, ext, pool, rs, sq, cache, gh >>

\* Dst.close in an _extract that lets the CancelException of a member through
CloseNoSkip(s) ==
    LET j == job[s]
        path == j.cur.path
    IN  /\ j.pc = "write"
        /\ j.cur.type = "file"
        /\ j.action = "api" \/ j.cur.pos = BodyLen
        /\ \E attr \in AttrOutcomes :
             LET r == Dst_close(j.cur, fs[path], attr)
                 f1 == [fs EXCEPT ![path] = r.f]
                 j1 == [j EXCEPT !.cur = r.d,
                                 !.cancelled = IF r.exc \in CancelExceptions
                                               THEN @ \cup {path} ELSE @]
             IN  IF r.exc = ""
                 THEN /\ fs' = f1
                      /\ job' = [job EXCEPT ![s] =
                             NextMember([j EXCEPT !.dsts = Append(j.dsts, r.d)])]
                 ELSE /\ fs' = FailedFs(j1, f1)
                      /\ job' = [job EXCEPT ![s] = Failed(j1, f1, r.exc)]
        /\ UNCHANGED << db, remote, cnt, ext, pool, rs, sq, cache, gh >>

\* Dst.close at the end of the copy loop (at any time through the Dst API)
Close(s) ==
    LET j == job[s]
        path == j.cur.path
    IN  /\ j.pc = "write"
        /\ j.cur.type = "file"
        /\ j.action = "api" \/ j.cur.pos = BodyLen
        /\ \E attr \in AttrOutcomes :
             LET r == Dst_close(j.cur, fs[path], attr)
                 f1 == [fs EXCEPT ![path] = r.f]
                 j1 == [j EXCEPT !.cur = r.d,
                                 !.cancelled = IF r.exc \in CancelExceptions
                                               THEN @ \cup {path} ELSE @]
             IN  IF r.exc = ""
                 THEN /\ fs' = f1
                      /\ job' = [job EXCEPT ![s] =
                             NextMember([j EXCEPT !.dsts = Append(j.dsts, r.d)])]
                 ELSE IF r.exc \in CancelExceptions /\ j.action = "extract"
                 THEN /\ fs' = f1
                      /\ job' = [job EXCEPT ![s] =
                             NextMember([j EXCEPT !.cancelled = @ \cup {path}])]
                 ELSE /\ fs' = FailedFs(j1, f1)
                      /\ job' = [job EXCEPT ![s] = Failed(j1, f1, r.exc)]
        /\ UNCHANGED << db, remote, cnt, ext, pool, rs, sq, cache, gh >>

\* Dst.move of the i-th destination, first rename
MoveBak(s) ==
    LET j == job[s]
        d == j.dsts[j.i]
        r == Dst_move_bak(d, fs[d.path])
    IN  /\ j.pc = "move_bak"
        /\ fs' = [fs EXCEPT ![d.path] = r.f]
        /\ job' = [job EXCEPT ![s] = [j EXCEPT !.pc = "move_part", !.dsts[j.i] = r.d]]
        /\ UNCHANGED << db, remote, cnt, ext, pool, rs, sq, cache, gh >>

\* Dst.move of the i-th destination, second rename, copystat and utime
MovePart(s) ==
    LET j == job[s]
        d == j.dsts[j.i]
    IN  /\ j.pc = "move_part"
        /\ \E stat \in {"ok", "raise"} :
             LET r == Dst_move_part(d, fs[d.path], stat)
                 f1 == [fs EXCEPT ![d.path] = r.f]
                 j1 == [j EXCEPT !.dsts[j.i] = r.d]
             IN  IF r.exc # ""
                 THEN /\ fs' = FailedFs(j1, f1)
                      /\ job' = [job EXCEPT ![s] = Failed(j1, f1, r.exc)]
                 ELSE /\ fs' = f1
                      /\ job' = [job EXCEPT ![s] =
                             IF j.i = Len(j.dsts)
                             THEN [j1 EXCEPT !.pc = "clear", !.i = 1]
                             ELSE [j1 EXCEPT !.pc = "move_bak", !.i = j.i + 1]]
        /\ UNCHANGED << db, remote, cnt, ext, pool, rs, sq, cache, gh >>

\* Dst.clear of the i-th destination; after the last one download leaves its
\* with block and the Dst API drops the object
Clear(s) ==
    LET j == job[s]
        d == j.dsts[j.i]
        r == Dst_clear(d, fs[d.path])
        j1 == [j EXCEPT !.dsts[j.i] = r.d]
    IN  /\ j.pc = "clear"
        /\ fs' = [fs EXCEPT ![d.path] = r.f]
        /\ job' = [job EXCEPT ![s] =
               IF j.i < Len(j.dsts) THEN [j1 EXCEPT !.i = j.i + 1]
               ELSE IF j.action = "api"
               THEN [j1 EXCEPT !.pc = "idle", !.result = "ok", !.dsts = << >>, !.i = 0]
               ELSE [j1 EXCEPT !.pc = "set_src", !.i = 0]]
        /\ UNCHANGED << db, remote, cnt, ext, pool, rs, sq, cache, gh >>

\* SrcBase._db_update: DB.set_src
SetSrc(s) ==
    LET j == job[s]
    IN  /\ j.pc = "set_src"
        /\ \E attr \in AttrOutcomes :
             LET r == set_src(db.src, j.db_info, j.tsk_id, ResOf(s), s, j.revision, attr)
             IN  IF r.exc # ""
                 THEN /\ db' = db
                      /\ fs' = FailedFs(j, fs)
                      /\ job' = [job EXCEPT ![s] = Failed(j, fs, r.exc)]
                 ELSE /\ db' = [db EXCEPT !.src = r.rows]
                      /\ fs' = fs
                      /\ job' = [job EXCEPT ![s] =
                             IF j.dsts = << >>
                             THEN [j EXCEPT !.pc = "orphans", !.src_id = r.id,
                                            !.result = "ok"]
                             ELSE [j EXCEPT !.pc = "set_dst", !.src_id = r.id, !.i = 1,
                                            !.dst_ids = {}, !.dst_ids_tag = "set"]]
        /\ UNCHANGED << remote, cnt, ext, pool, rs, sq, cache, gh >>

\* SrcBase._db_update: dst.db_update of the i-th destination; after the last
\* one the action returns and its Dst objects are dropped (Dst.__del__)
SetDst(s) ==
    LET j == job[s]
        d == j.dsts[j.i]
    IN  /\ j.pc = "set_dst"
        /\ \E attr \in AttrOutcomes :
             LET r == Dst_db_update(d, fs[d.path], db.dst, j.tsk_id, ResOf(s),
                                    j.src_id, attr)
             IN  IF r.exc # ""
                 THEN /\ db' = db
                      /\ fs' = FailedFs(j, fs)
                      /\ job' = [job EXCEPT ![s] = Failed(j, fs, r.exc)]
                 ELSE /\ db' = [db EXCEPT !.dst = r.rows]
                      /\ fs' = IF j.i < Len(j.dsts) THEN fs ELSE CancelAll(j.dsts, fs)
                      /\ job' = [job EXCEPT ![s] =
                             IF j.i < Len(j.dsts)
                             THEN [j EXCEPT !.i = j.i + 1,
                                            !.dst_ids = j.dst_ids \cup {r.id}]
                             ELSE [j EXCEPT !.pc = "orphans", !.i = 0, !.dsts = << >>,
                                            !.dst_ids = j.dst_ids \cup {r.id},
                                            !.result = "ok"]]
        /\ UNCHANGED << remote, cnt, ext, pool, rs, sq, cache, gh >>

\* SrcBase.remove_orphans: "not in" on None or True is a TypeError
RemoveOrphans(s) ==
    LET j == job[s]
        rows == get_dst_by_src(db.dst, j.src_id)
        orphans == {r \in rows : r.id \notin j.dst_ids}
    IN  /\ j.pc = "orphans"
        /\ IF rows # {} /\ j.dst_ids_tag # "set"
           THEN /\ job' = [job EXCEPT ![s] = Failed(j, fs, "TypeError")]
                /\ UNCHANGED << fs, db, ext, pool, rs, sq, cache, gh >>
           ELSE /\ fs' = [p \in Paths |->
                            IF \E r \in orphans : r.path = p
                            THEN [fs[p] EXCEPT !.file = NoFile] ELSE fs[p]]
                /\ db' = [db EXCEPT !.dst = {r \in db.dst : r \notin orphans}]
                /\ job' = [job EXCEPT ![s] = [j EXCEPT !.pc = "orphan_srcs", !.dsts = << >>]]
        /\ UNCHANGED << remote, cnt, ext, pool, rs, sq, cache, gh >>

\* Res._do_action, "Remove orphans sources": Res._remove_src of every src row
\* of the resource that is not a source of this run
RemoveOrphanSrcs(s) ==
    LET j == job[s]
        gone == {r.id : r \in {q \in get_src_by_res(db.src, ResOf(s)) : q.id # j.src_id}}
        dead == {r \in db.dst : r.src_id \in gone}
    IN  /\ j.pc = "orphan_srcs"
        /\ fs' = [p \in Paths |->
                    IF \E r \in dead : r.path = p
                    THEN [fs[p] EXCEPT !.file = NoFile] ELSE fs[p]]
        /\ db' = [db EXCEPT !.src = {r \in db.src : r.id \notin gone},
                            !.dst = db.dst \ dead]
        /\ job' = [job EXCEPT ![s] = [j EXCEPT !.pc = "idle"]]
        /\ UNCHANGED << remote, cnt, ext, pool, rs, sq, cache, gh >>

\* Res._remove_src: the file of every dst row of the source is removed, then
\* the src row and its dst rows are deleted; [f, store]
remove_src(f, store, src_id) ==
    LET rows == get_dst_by_src(store.dst, src_id)
    IN  [f |-> [p \in Paths |->
                  IF \E r \in rows : r.path = p
                  THEN [f[p] EXCEPT !.file = NoFile] ELSE f[p]],
         store |-> del_src(store, src_id)]

\* Res.apply('remove') of the resource of s, up to the submits: Res._remove
\* reads the src rows of the resource and submits _remove_src for each
StartRemove(s) ==
    /\ \A q \in Srcs : ResOf(q) = ResOf(s) => ~Running(q)
    /\ remote[s].kind \in {"file", "tar"}
    /\ remote[s].listed
    /\ db.tsk >= 1
    /\ cnt.runs < MaxRuns
    /\ job' = [job EXCEPT ![s] =
           LET ids == {r.id : r \in get_src_by_res(db.src, ResOf(s))}
           IN  [IdleJob EXCEPT !.pc = "remove", !.action = "remove",
                               !.tsk_id = db.tsk, !.src_read = ids, !.src_rows = ids,
                               !.before = [p \in DOMAIN remote[s].members |->
                                             fs[p].file]]]
    /\ cnt' = [cnt EXCEPT !.runs = @ + 1]
    /\ UNCHANGED << fs, db, remote, ext, pool, rs, sq, cache, gh >>

\* one worker runs Res._remove_src(src_id)
RemoveSrc(s) ==
    LET j == job[s]
    IN  /\ j.pc = "remove"
        /\ \E id \in j.src_rows :
             LET r == remove_src(fs, db, id)
             IN  /\ fs' = r.f
                 /\ db' = r.store
                 /\ job' = [job EXCEPT ![s] = [j EXCEPT !.src_rows = @ \ {id}]]
        /\ UNCHANGED << remote, cnt, ext, pool, rs, sq, cache, gh >>

\* Res._remove after its futures: DB.del_res
DelRes(s) ==
    LET j == job[s]
    IN  /\ j.pc = "remove"
        /\ j.src_rows = {}
        /\ db' = del_res(db, ResOf(s))
        /\ job' = [job EXCEPT ![s] = [j EXCEPT !.pc = "idle", !.result = "ok"]]
        /\ UNCHANGED << fs, remote, cnt, ext, pool, rs, sq, cache, gh >>

\* the Dst API driven by hand: Dst(path, res_id, force=force) on p1; the Dst
\* made when the process is started again after a crash is no new run
ApiNew(s, force) ==
    LET r == Dst_init(db.dst, "p1", ResOf(s), force, "file", fs["p1"], FreshIno,
                      "resolve")
        after == job[s].result = "crashed"
    IN  /\ ~Running(s)
        /\ remote[s].kind = "api"
        /\ cnt.runs < MaxRuns \/ after
        /\ r.exc = ""
        /\ fs' = [fs EXCEPT !["p1"] = r.f]
        /\ job' = [job EXCEPT ![s] =
               [IdleJob EXCEPT !.pc = "write", !.action = "api", !.force = force,
                               !.body = remote[s].members, !.todo = << "p1" >>,
                               !.cur = r.d, !.crashed = after,
                               !.before = IF after THEN job[s].before
                                          ELSE [p \in {"p1"} |-> fs[p].file]]]
        /\ cnt' = IF after THEN cnt ELSE [cnt EXCEPT !.runs = @ + 1]
        /\ UNCHANGED << db, remote, ext, pool, rs, sq, cache, gh >>

\* Dst.cancel() called by hand at any step
ApiCancel(s) ==
    LET j == job[s]
        d == LiveDsts(j)[1]
        r == Dst_cancel(d, fs[d.path])
    IN  /\ Running(s)
        /\ j.action = "api"
        /\ fs' = [fs EXCEPT ![d.path] = r.f]
        /\ job' = [job EXCEPT ![s] =
               [j EXCEPT !.pc = "idle", !.result = "cancelled", !.exc = r.exc,
                         !.cur = NoDst, !.dsts = << >>, !.todo = << >>, !.i = 0]]
        /\ UNCHANGED << db, remote, cnt, ext, pool, rs, sq, cache, gh >>

\* the process dies while a Dst driven by hand is in its write protocol: the
\* object and its open file are lost, the disk stays as it is
Crash(s) ==
    LET j == job[s]
    IN  /\ Running(s)
        /\ j.action = "api"
        /\ cnt.crashes < MaxCrashes
        /\ job' = [job EXCEPT ![s] =
               [IdleJob EXCEPT !.action = "api", !.result = "crashed",
                               !.before = j.before]]
        /\ cnt' = [cnt EXCEPT !.crashes = @ + 1]
        /\ UNCHANGED << fs, db, remote, ext, pool, rs, sq, cache, gh >>

\* the user rewrites a file that is on disk, between two runs (not between a
\* crash and the Dst made after it)
UserEdit(p) ==
    /\ cnt.edits < MaxEdits
    /\ \A s \in Srcs : ~Running(s) /\ job[s].result # "crashed"
    /\ Exists(fs[p].file)
    /\ ~IsDir(fs[p].file)
    /\ fs[p].file.data # Body(UserVersion)
    /\ fs' = [fs EXCEPT ![p].file.data = Body(UserVersion)]
    /\ cnt' = [cnt EXCEPT !.edits = @ + 1]
    /\ UNCHANGED << db, remote, job, ext, pool, rs, sq, cache, gh >>

\* the members an archive (or the body a file) can change to
NewMembers(r) ==
    {m \in MemberMaps :
        /\ m # r.members
        /\ DOMAIN m # {}
        /\ DOMAIN m \subseteq DOMAIN r.members
        /\ \E v \in Versions : \A p \in DOMAIN m : m[p] = v}

\* the platform publishes a new revision, between two runs
RemoteChange(s) ==
    /\ cnt.remote < MaxRemote
    /\ \A q \in Srcs : ~Running(q)
    /\ remote[s].listed
    /\ \E m \in NewMembers(remote[s]) :
         remote' = [remote EXCEPT ![s].rev = @ + 1, ![s].members = m]
    /\ cnt' = [cnt EXCEPT !.remote = @ + 1]
    /\ UNCHANGED << fs, db, job, ext, pool, rs, sq, cache, gh >>

\* the platform lists another source for the resource in place of the one it
\* listed (an asset is renamed), between two runs
ListChange(s) ==
    /\ cnt.remote < MaxRemote
    /\ \A q \in Srcs : ~Running(q)
    /\ remote[s].listed
    /\ \E q \in Srcs \ {s} :
         /\ ResOf(q) = ResOf(s)
         /\ remote[q].kind \in {"file", "tar"} /\ ~remote[q].listed
         /\ remote' = [remote EXCEPT ![s].listed = FALSE, ![q].listed = TRUE]
    /\ cnt' = [cnt EXCEPT !.remote = @ + 1]
    /\ UNCHANGED << fs, db, job, ext, pool, rs, sq, cache, gh >>

Next ==
    \/ NewTsk
    \/ \E s \in Srcs, update \in BOOLEAN, force \in BOOLEAN : Start(s, update, force)
    \/ \E s \in Srcs : Guard(s)
    \/ \E s \in Srcs : Reject(s)
    \/ \E s \in Srcs : DstInit(s)
    \/ \E s \in Srcs : MakeDir(s)
    \/ \E s \in Srcs : WriteLink(s)
    \/ \E s \in Srcs : Write(s)
    \/ \E s \in Srcs : Close(s)
    \/ \E s \in Srcs : MoveBak(s)
    \/ \E s \in Srcs : MovePart(s)
    \/ \E s \in Srcs : Clear(s)
    \/ \E s \in Srcs : SetSrc(s)
    \/ \E s \in Srcs : SetDst(s)
    \/ \E s \in Srcs : RemoveOrphans(s)
    \/ \E s \in Srcs : RemoveOrphanSrcs(s)
    \/ \E s \in Srcs : StartRemove(s)
    \/ \E s \in Srcs : RemoveSrc(s)
    \/ \E s \in Srcs : DelRes(s)
    \/ \E s \in Srcs, force \in BOOLEAN : ApiNew(s, force)
    \/ \E s \in Srcs : ApiCancel(s)
    \/ \E s \in Srcs : Crash(s)
    \/ \E p \in Paths : UserEdit(p)
    \/ \E s \in Srcs : RemoteChange(s)
    \/ \E s \in Srcs : ListChange(s)

Spec == Init /\ [][Next]_vars

\* ------------------------------------------------------- SrcBase._set_path
\* A member path is [abs, parts]: whether it starts with "/", and its segments.
\* A destination path is [root, parts]: root "out" is the output directory,
\* root "/" the root of the filesystem.
Segs == {"a", ".."}
MemberPaths == [abs : BOOLEAN, parts : UNION {[1..n -> Segs] : n \in 1..MaxSegs}]

\* PurePath(path).parts
Parts(m) == (IF m.abs THEN << "/" >> ELSE << >>) \o m.parts

\* str(PurePath(*PurePath(path).parts[strip_components:]))
StripComponents(m, n) ==
    LET rest == SubSeq(Parts(m), n + 1, Len(Parts(m)))
    IN  IF rest # << >> /\ rest[1] = "/"
        THEN [abs |-> TRUE, parts |-> Tail(rest)]
        ELSE [abs |-> FALSE, parts |-> rest]

\* path.startswith("..")
StartsWithDotDot(m) == ~m.abs /\ m.parts # << >> /\ m.parts[1] = ".."

\* out is what is at self._output: "dir" a directory, "new" nothing but its
\* parent is a directory, "noparent" nothing and no parent directory
set_path(m, strip_components, trusted, out) ==
    LET path == IF strip_components # 0 THEN StripComponents(m, strip_components) ELSE m
    IN  IF ~trusted /\ (path.abs \/ StartsWithDotDot(path))
        THEN [exc |-> "PermissionError", path |-> [root |-> "none", parts |-> << >>]]
        ELSE IF path.abs
        THEN [exc |-> "", path |-> [root |-> "/", parts |-> path.parts]]
        ELSE IF out = "dir"
        THEN [exc |-> "", path |-> [root |-> "out", parts |-> path.parts]]
        ELSE IF out = "noparent"
        THEN [exc |-> "FileNotFoundError", path |-> [root |-> "none", parts |-> << >>]]
        ELSE [exc |-> "", path |-> [root |-> "out", parts |-> << >>]]

\* how deep below the output directory the first k segments lead
Depth(parts, k) ==
    Cardinality({i \in 1..k : parts[i] # ".."}) - Cardinality({i \in 1..k : parts[i] = ".."})

\* the path stays in the subtree of the output directory
Within(path) ==
    /\ path.root = "out"
    /\ \A k \in 1..Len(path.parts) : Depth(path.parts, k) >= 0

PathInit ==
    /\ fs = [p \in Paths |-> NoNames]
    /\ db = [tsk |-> 0, res |-> {}, src |-> {}, dst |-> {}]
    /\ remote = [s \in Srcs |-> NoRemote(0)]
    /\ job = [s \in Srcs |-> IdleJob]
    /\ cnt = [runs |-> 0, edits |-> 0, remote |-> 0, crashes |-> 0]
    /\ ext \in [pc : {"call"}, member : MemberPaths, strip : 0..MaxStrip,
                 trusted : BOOLEAN, out : {"dir", "new", "noparent"},
                 exc : {""}, path : {[root |-> "none", parts |-> << >>]}]
    /\ pool = NoTsk
    /\ rs = NoRes /\ sq = NoSql /\ cache = NoCache /\ gh = NoApi

\* set_path(member.name) of Src._extract
SetPath ==
    /\ ext.pc = "call"
    /\ LET r == set_path(ext.member, ext.strip, ext.trusted, ext.out)
       IN  ext' = [ext EXCEPT !.pc = "done", !.exc = r.exc, !.path = r.path]
    /\ UNCHANGED << fs, db, remote, job, cnt, pool, rs, sq, cache, gh >>

PathNext == SetPath

SpecPath == PathInit /\ [][PathNext]_vars

\* ---------------------------------------------------------- Tsk (_tsk.py)
\* SpecTsk runs one Tsk after the other.  TskNew is a call of one of the public
\* functions (nun.download .. nun.update): Tsk.__init__, then Tsk.apply builds
\* its resources from the names.  TskOver is Tsk.apply of an update whose
\* generator reads the res rows StoredRes, each resource with the sources
\* get_src_list yields.  The names of a Tsk are a set (Tsk.__init__), which
\* the generator walks in an order of its own: the order is an input.  What
\* a source action does to the disk and the store is Spec's part; here it
\* ends in success or with an exception.

\* the resource names and glob patterns a Tsk is called with
ResNames == {"r1", "r2", "*"}
TskActions == {"download", "extract", "install", "update", "remove"}

\* the res rows an update finds in the store (id, name)
StoredRes == {[id |-> 1, name |-> "r1"], [id |-> 2, name |-> "r2"]}
StoredIds == {r.id : r \in StoredRes}

\* the Res objects of a Tsk: object i of StoredIds is the first Res built for
\* the res row i, object i + Cardinality(StoredIds) the second one (a row is
\* matched by at most two names of ResNames: its own and "*")
PoolRes == 1..(2 * Cardinality(StoredIds))
RowOf(o) == IF o \in StoredIds THEN o ELSE o - Cardinality(StoredIds)

\* get_src_list of the resource of a Res object
SrcList(r) == IF RowOf(r) = 1 THEN << "s1", "s2" >> ELSE << "s1" >>

\* name GLOB pattern
Glob(name, pattern) == pattern = "*" \/ name = pattern

\* DB.get_res_by_glob
get_res_by_glob(rows, res_name) == {r \in rows : Glob(r.name, res_name)}

\* a set as a sequence, smallest first
RECURSIVE SeqOf(_)
SeqOf(S) ==
    IF S = {} THEN << >>
    ELSE LET x == CHOOSE x \in S : \A y \in S : x.key <= y.key
         IN  << x >> \o SeqOf(S \ {x})

\* the names an update is called with: one or two of ResNames
UpdateNames == {n \in SUBSET ResNames : n # {} /\ n # ResNames}

\* the orders in which a set can be walked
Orders(S) == {q \in [1..Cardinality(S) -> S] : \A x \in S : \E i \in DOMAIN q : q[i] = x}

\* the Res(...) calls of the generator of Tsk.apply, in order: for update and
\* remove, for each name in turn, one per res row the name matches (in rowid
\* order), else one per name, without res_id
RECURSIVE Resources(_, _, _)
Resources(rows, action, order) ==
    IF order = << >> THEN << >>
    ELSE (IF action \in {"update", "remove"}
          THEN SeqOf({[key |-> r.id, res_id |-> r.id, name |-> r.name] :
                        r \in get_res_by_glob(rows, Head(order))})
          ELSE << [key |-> 0, res_id |-> 0, name |-> Head(order)] >>)
         \o Resources(rows, action, Tail(order))

\* Res.__init__: without res_id the id is read from DB.get_src(None, name),
\* which is None: None['id'] is a TypeError
Res_init(rows, res_id, name) ==
    IF res_id = 0
    THEN IF get_src(rows, res_id, name) = NoSrcRow
         THEN [res_id |-> 0, exc |-> "TypeError"]
         ELSE [res_id |-> get_src(rows, res_id, name).id, exc |-> ""]
    ELSE [res_id |-> res_id, exc |-> ""]

\* an exception: its type and the (resource, source) pairs it names
NoExc == [type |-> "", at |-> {}]
Raised(type, at) == [type |-> type, at |-> at]

\* the work items of the executor: Res.apply of a resource, the action of a
\* source, remove_orphans of a source
ResItem(r) == << "res", r, "-" >>
SrcItem(r, s) == << "src", r, s >>
OrphItem(r, s) == << "orph", r, s >>
SrcsOf(r) == {SrcList(r)[i] : i \in 1..Len(SrcList(r))}
Items ==
    {ResItem(r) : r \in PoolRes}
    \cup UNION {{SrcItem(r, s) : s \in SrcsOf(r)} : r \in PoolRes}
    \cup UNION {{OrphItem(r, s) : s \in SrcsOf(r)} : r \in PoolRes}

\* Tsk.__init__ (DB.set_tsk) and the head of Tsk.apply
NewPool(action, force, names, todo, handed, workers) ==
    [pc |-> "submit", action |-> action, force |-> force, names |-> names,
     todo |-> todo, handed |-> handed, workers |-> workers, futures |-> << >>, k |-> 1, shutdown |-> FALSE,
     queue |-> << >>, st |-> [i \in Items |-> "new"],
     rpc |-> [r \in PoolRes |-> [phase |-> "submit", i |-> 1]],
     rexc |-> [r \in PoolRes |-> NoExc], exc |-> NoExc]

TskIdle == pool.pc \in {"none", "done"}

\* a public function is called with names and patterns
TskNew(action, force, order, workers) ==
    /\ TskIdle
    /\ db.tsk < MaxTsk
    /\ db' = [db EXCEPT !.tsk = @ + 1]
    /\ pool' = NewPool(action, force, {order[i] : i \in DOMAIN order},
                     Resources(db.res, action, order), FALSE, workers)
    /\ UNCHANGED << fs, remote, job, cnt, ext, rs, sq, cache, gh >>

\* Tsk.apply of an update over the res rows StoredRes
TskOver(order, workers) ==
    /\ TskIdle
    /\ db.tsk < MaxTsk
    /\ db' = [db EXCEPT !.tsk = @ + 1]
    /\ pool' = NewPool("update", FALSE, {order[i] : i \in DOMAIN order},
                     Resources(StoredRes, "update", order), TRUE, workers)
    /\ UNCHANGED << fs, remote, job, cnt, ext, rs, sq, cache, gh >>

\* "for res in resources": the generator builds the next Res and res.apply is
\* submitted; an exception of Res.__init__ leaves the with block
SubmitRes ==
    /\ pool.pc = "submit"
    /\ pool.todo # << >>
    /\ LET x == Head(pool.todo)
           r == Res_init(db.src, x.res_id, x.name)
           o == IF pool.st[ResItem(r.res_id)] = "new" THEN r.res_id
                ELSE r.res_id + Cardinality(StoredIds)
       IN  pool' = IF r.exc # ""
                   THEN [pool EXCEPT !.pc = "exit", !.exc = Raised(r.exc, {})]
                   ELSE [pool EXCEPT !.todo = Tail(@),
                                     !.futures = Append(@, o),
                                     !.queue = Append(@, ResItem(o)),
                                     !.st[ResItem(o)] = "queued"]
    /\ UNCHANGED << fs, db, remote, job, cnt, ext, rs, sq, cache, gh >>

\* the generator is exhausted
SubmitEnd ==
    /\ pool.pc = "submit"
    /\ pool.todo = << >>
    /\ pool' = [pool EXCEPT !.pc = IF pool.futures = << >> THEN "exit" ELSE "wait"]
    /\ UNCHANGED << fs, db, remote, job, cnt, ext, rs, sq, cache, gh >>

\* "for future in futures: future.result()": the result of the k-th future
WaitRes ==
    /\ pool.pc = "wait"
    /\ LET r == pool.futures[pool.k]
       IN  /\ pool.st[ResItem(r)] \in {"ok", "failed"}
           /\ pool' = IF pool.st[ResItem(r)] = "failed"
                       THEN [pool EXCEPT !.pc = "exit", !.exc = pool.rexc[r]]
                       ELSE IF pool.k = Len(pool.futures)
                       THEN [pool EXCEPT !.pc = "exit"]
                       ELSE [pool EXCEPT !.k = @ + 1]
    /\ UNCHANGED << fs, db, remote, job, cnt, ext, rs, sq, cache, gh >>

\* ThreadPoolExecutor.__exit__: shutdown(wait=True) sets the shutdown flag
Shutdown ==
    /\ pool.pc = "exit"
    /\ pool' = [pool EXCEPT !.pc = "join", !.shutdown = TRUE]
    /\ UNCHANGED << fs, db, remote, job, cnt, ext, rs, sq, cache, gh >>

\* shutdown(wait=True) returns when the workers have emptied the queue, and
\* Tsk.apply returns or raises pool.exc
Join ==
    /\ pool.pc = "join"
    /\ \A i \in Items : pool.st[i] \notin {"queued", "running"}
    /\ pool' = [pool EXCEPT !.pc = "done"]
    /\ UNCHANGED << fs, db, remote, job, cnt, ext, rs, sq, cache, gh >>

\* a free worker takes the first work item of the queue
TakeWork ==
    /\ pool.pc \notin {"none", "done"}
    /\ pool.queue # << >>
    /\ Cardinality({i \in Items : pool.st[i] = "running"}) < pool.workers
    /\ pool' = [pool EXCEPT !.queue = Tail(@), !.st[Head(pool.queue)] = "running"]
    /\ UNCHANGED << fs, db, remote, job, cnt, ext, rs, sq, cache, gh >>

\* executor.submit: RuntimeError once the executor is shut down
ResRaise(r, exc) ==
    [pool EXCEPT !.st[ResItem(r)] = "failed", !.rexc[r] = exc]

\* Res._do_action, first loop: the action of the next source is submitted
ResSubmitSrc(r) ==
    LET c == pool.rpc[r]
        item == SrcItem(r, SrcList(r)[c.i])
    IN  /\ pool.pc \notin {"none", "done"}
        /\ pool.st[ResItem(r)] = "running"
        /\ c.phase = "submit"
        /\ pool' = IF pool.shutdown
                    THEN ResRaise(r, Raised("RuntimeError", {}))
                    ELSE [pool EXCEPT !.queue = Append(@, item), !.st[item] = "queued",
                                      !.rpc[r] = IF c.i = Len(SrcList(r))
                                                 THEN [phase |-> "wait", i |-> 1]
                                                 ELSE [c EXCEPT !.i = @ + 1]]
        /\ UNCHANGED << fs, db, remote, job, cnt, ext, rs, sq, cache, gh >>

\* Res._do_action that goes on to the orphans without future.result()
ResWaitSrcNoWait(r) ==
    LET c == pool.rpc[r]
    IN  /\ pool.pc \notin {"none", "done"}
        /\ pool.st[ResItem(r)] = "running"
        /\ c.phase = "wait"
        /\ pool' = [pool EXCEPT !.rpc[r] = IF c.i = Len(SrcList(r))
                                            THEN [phase |-> "osubmit", i |-> 1]
                                            ELSE [c EXCEPT !.i = @ + 1]]
        /\ UNCHANGED << fs, db, remote, job, cnt, ext, rs, sq, cache, gh >>

\* Res._do_action, "Wait all write operations completion": future.result()
ResWaitSrc(r) ==
    LET c == pool.rpc[r]
        s == SrcList(r)[c.i]
    IN  /\ pool.pc \notin {"none", "done"}
        /\ pool.st[ResItem(r)] = "running"
        /\ c.phase = "wait"
        /\ pool.st[SrcItem(r, s)] \in {"ok", "failed"}
        /\ pool' = IF pool.st[SrcItem(r, s)] = "failed"
                    THEN ResRaise(r, Raised("SrcError", {<< r, s >>}))
                    ELSE [pool EXCEPT !.rpc[r] = IF c.i = Len(SrcList(r))
                                                 THEN [phase |-> "osubmit", i |-> 1]
                                                 ELSE [c EXCEPT !.i = @ + 1]]
        /\ UNCHANGED << fs, db, remote, job, cnt, ext, rs, sq, cache, gh >>

\* Res._do_action, "Remove orphans destinations": src.remove_orphans is
\* submitted for the next source
ResSubmitOrph(r) ==
    LET c == pool.rpc[r]
        item == OrphItem(r, SrcList(r)[c.i])
    IN  /\ pool.pc \notin {"none", "done"}
        /\ pool.st[ResItem(r)] = "running"
        /\ c.phase = "osubmit"
        /\ pool' = IF pool.shutdown
                    THEN ResRaise(r, Raised("RuntimeError", {}))
                    ELSE [pool EXCEPT !.queue = Append(@, item), !.st[item] = "queued",
                                      !.rpc[r] = IF c.i = Len(SrcList(r))
                                                 THEN [phase |-> "owait", i |-> 1]
                                                 ELSE [c EXCEPT !.i = @ + 1]]
        /\ UNCHANGED << fs, db, remote, job, cnt, ext, rs, sq, cache, gh >>

\* Res._do_action, "Wait for completion", then the end of Res._update
ResWaitOrph(r) ==
    LET c == pool.rpc[r]
        s == SrcList(r)[c.i]
    IN  /\ pool.pc \notin {"none", "done"}
        /\ pool.st[ResItem(r)] = "running"
        /\ c.phase = "owait"
        /\ pool.st[OrphItem(r, s)] = "ok"
        /\ pool' = IF c.i = Len(SrcList(r))
                    THEN [pool EXCEPT !.st[ResItem(r)] = "ok",
                                      !.rpc[r] = [phase |-> "end", i |-> 0]]
                    ELSE [pool EXCEPT !.rpc[r] = [c EXCEPT !.i = @ + 1]]
        /\ UNCHANGED << fs, db, remote, job, cnt, ext, rs, sq, cache, gh >>

\* a worker runs the action of a source: it returns or it raises
SrcRun(r, s) ==
    /\ pool.pc \notin {"none", "done"}
    /\ s \in SrcsOf(r)
    /\ pool.st[SrcItem(r, s)] = "running"
    /\ \E out \in {"ok", "failed"} : pool' = [pool EXCEPT !.st[SrcItem(r, s)] = out]
    /\ UNCHANGED << fs, db, remote, job, cnt, ext, rs, sq, cache, gh >>

\* a worker runs remove_orphans of a source
OrphRun(r, s) ==
    /\ pool.pc \notin {"none", "done"}
    /\ s \in SrcsOf(r)
    /\ pool.st[OrphItem(r, s)] = "running"
    /\ pool' = [pool EXCEPT !.st[OrphItem(r, s)] = "ok"]
    /\ UNCHANGED << fs, db, remote, job, cnt, ext, rs, sq, cache, gh >>

TskNext ==
    \/ \E action \in TskActions, force \in BOOLEAN, names \in SUBSET ResNames \ {{}},
          workers \in 1..PoolWorkers :
          \E order \in Orders(names) : TskNew(action, force, order, workers)
    \/ \E names \in UpdateNames, workers \in 1..PoolWorkers :
          \E order \in Orders(names) : TskOver(order, workers)
    \/ SubmitRes
    \/ SubmitEnd
    \/ WaitRes
    \/ Shutdown
    \/ Join
    \/ TakeWork
    \/ \E r \in PoolRes : ResSubmitSrc(r)
    \/ \E r \in PoolRes : ResWaitSrc(r)
    \/ \E r \in PoolRes : ResSubmitOrph(r)
    \/ \E r \in PoolRes : ResWaitOrph(r)
    \/ \E r \in PoolRes, s \in Srcs : SrcRun(r, s)
    \/ \E r \in PoolRes, s \in Srcs : OrphRun(r, s)

TskInit ==
    /\ fs = [p \in Paths |-> NoNames]
    /\ db = [tsk |-> 0, res |-> {}, src |-> {}, dst |-> {}]
    /\ remote = [s \in Srcs |-> NoRemote(0)]
    /\ job = [s \in Srcs |-> IdleJob]
    /\ cnt = [runs |-> 0, edits |-> 0, remote |-> 0, crashes |-> 0]
    /\ ext = NoCall
    /\ pool = NoTsk
    /\ rs = NoRes /\ sq = NoSql /\ cache = NoCache /\ gh = NoApi

SpecTsk == TskInit /\ [][TskNext]_vars

\* ---------------------------------------------------------- Res (_res.py)
\* SpecRes applies one Res after the other, each in a Tsk of its own: a create
\* on a Res object built with a name and, or not, a res_id; an update or a
\* remove on the Res that Tsk.apply builds from a res row.  A source action is
\* Spec's part; here it writes its src row (SrcBase._db_update), leaves it as
\* it is (SrcBase._cancel) or fails.

\* the names of the resources and the create actions with their options
\* (nun.download: output; nun.install: none)
Names == {"r1", "r2"}
CreateActions == {"download", "install"}

\* Python values of the arguments column: a dict of n options, the JSON text
\* of one, None
Dict(n) == [type |-> "dict", items |-> n]
Text(n) == [type |-> "str", items |-> n]
NoneArgs == [type |-> "None", items |-> 0]
ArgsOf(action) == IF action = "download" THEN Dict(1) ELSE Dict(0)

\* json.dumps of a dict
dumps(a) == Text(a.items)

NoResRow == [id |-> 0, tsk_id |-> 0, name |-> "None", action |-> "None",
             arguments |-> NoneArgs]
ResNone == [tsk_id |-> 0, name |-> "None", action |-> "None", arguments |-> NoneArgs]

\* DB.set_res: a non-empty dict is stored as its JSON text; another dict is
\* handed to sqlite as it is, which cannot bind it
set_res(rows, tsk_id, res_id, name, action, arguments) ==
    LET a == IF arguments.type = "dict" /\ arguments.items > 0
             THEN dumps(arguments) ELSE arguments
    IN  IF a.type = "dict" THEN [rows |-> rows, id |-> 0, exc |-> "InterfaceError"]
        ELSE sql_insert_or_update(rows, res_id, NoResRow,
                 [tsk_id |-> tsk_id, name |-> name, action |-> action, arguments |-> a],
                 ResNone, "resolve")

\* the lists of sources get_src_list yields
SrcLists == { << "s1" >>, << "s1", "s2" >>, << "s2" >> }

\* the res_id a Res object of a create is built with (0: none)
HandedIds == {0, 1}

\* a Res object
ResObj(res_id, name, action, arguments) ==
    [res_id |-> res_id, name |-> name, action |-> action, arguments |-> arguments]

\* before, srcs_before: the res rows and the src rows when the Tsk was made;
\* call: the action and the arguments each source action was submitted with
\* (all three read by the properties only)
NewRes(task, force, update, res, pc, exc) ==
    [pc |-> pc, task |-> task, force |-> force, update |-> update,
     tsk_id |-> db.tsk + 1, res |-> res, list |-> << >>, i |-> 0,
     info |-> [s \in Srcs |-> NoSrcRow], st |-> [s \in Srcs |-> "new"],
     src_id |-> [s \in Srcs |-> 0], src_rows |-> {}, exc |-> exc,
     before |-> db.res, srcs_before |-> db.src, call |-> [s \in Srcs |-> ResObj(0, "None", "None", NoneArgs)]]

ResIdle == rs.pc \in {"idle", "done"}

ResEnd(r, exc) == [r EXCEPT !.pc = "done", !.exc = exc]

\* Tsk.__init__, Res.__init__ and Res.apply of a create up to _do_action:
\* Res._create refuses a Res that has a res_id unless force, then inserts the
\* res row
ResCreate(name, action, force, res_id) ==
    LET init == Res_init(db.src, res_id, name)
        r == set_res(db.res, db.tsk + 1, 0, name, action, ArgsOf(action))
        o == ResObj(init.res_id, name, action, ArgsOf(action))
    IN  /\ ResIdle
        /\ db.tsk < MaxResTsk
        /\ IF init.exc # ""
           THEN /\ rs' = NewRes(action, force, FALSE, o, "done", init.exc)
                /\ db' = [db EXCEPT !.tsk = @ + 1]
           ELSE IF ~force /\ init.res_id # 0
           THEN /\ rs' = NewRes(action, force, FALSE, o, "done", "Invalid")
                /\ db' = [db EXCEPT !.tsk = @ + 1]
           ELSE IF r.exc # ""
           THEN /\ rs' = NewRes(action, force, FALSE, o, "done", r.exc)
                /\ db' = [db EXCEPT !.tsk = @ + 1]
           ELSE /\ rs' = NewRes(action, force, FALSE, [o EXCEPT !.res_id = r.id],
                                "list", "")
                /\ db' = [db EXCEPT !.tsk = @ + 1, !.res = r.rows]
        /\ UNCHANGED << fs, remote, job, cnt, ext, pool, sq, cache, gh >>

\* Tsk.__init__ and Tsk.apply of an update whose name matches the res row id:
\* the Res is built from the row, Res._update goes to _do_action
ResUpdate(id, force) ==
    /\ ResIdle
    /\ db.tsk < MaxResTsk
    /\ \E row \in db.res :
          /\ row.id = id
          /\ rs' = NewRes("update", force, TRUE,
                          ResObj(row.id, row.name, row.action, row.arguments),
                          "list", "")
    /\ db' = [db EXCEPT !.tsk = @ + 1]
    /\ UNCHANGED << fs, remote, job, cnt, ext, pool, sq, cache, gh >>

\* Res._do_action: get_plt(name).get_src_list(name, res_id) yields the sources
\* or the platform fails to resolve the name
GetSrcList ==
    /\ rs.pc = "list"
    /\ \/ rs' = ResEnd(rs, "NotFound")
       \/ \E l \in SrcLists : rs' = [rs EXCEPT !.pc = "submit", !.list = l, !.i = 1]
    /\ UNCHANGED << fs, db, remote, job, cnt, ext, pool, sq, cache, gh >>

\* Res._do_action, first loop: the next source is built (SrcBase.__init__
\* reads its src row) and submit(getattr(src, action), update=..., tsk_id=...,
\* force=..., **arguments) is called; ** of a value that is no mapping is a
\* TypeError
ResSubmit ==
    LET s == rs.list[rs.i]
        info == get_src(db.src, rs.res.res_id, s)
    IN  /\ rs.pc = "submit"
        /\ rs' = IF rs.res.arguments.type # "dict" THEN ResEnd(rs, "TypeError")
                 ELSE [rs EXCEPT !.info[s] = info, !.src_id[s] = info.id,
                                 !.st[s] = "queued",
                                 !.call[s] = ResObj(rs.res.res_id, rs.res.name,
                                                    rs.res.action, rs.res.arguments),
                                 !.i = @ + 1,
                                 !.pc = IF rs.i = Len(rs.list) THEN "wait" ELSE "submit"]
        /\ UNCHANGED << fs, db, remote, job, cnt, ext, pool, sq, cache, gh >>

\* a worker runs the action of a source: it fails, it is cancelled
\* (SrcBase._cancel: an update of an unchanged revision), or it ends with
\* SrcBase._db_update, which writes the src row
SrcAct(s) ==
    /\ rs.pc \in {"submit", "wait"}
    /\ rs.st[s] = "queued"
    /\ \/ /\ rs' = [rs EXCEPT !.st[s] = "failed"]
          /\ db' = db
       \/ /\ rs.update /\ ~rs.force /\ rs.info[s] # NoSrcRow
          /\ rs' = [rs EXCEPT !.st[s] = "ok"]
          /\ db' = db
       \/ \E attr \in AttrOutcomes :
             LET r == set_src(db.src, rs.info[s], rs.tsk_id, rs.res.res_id, s,
                              rs.tsk_id, attr)
             IN  IF r.exc # ""
                 THEN /\ rs' = [rs EXCEPT !.st[s] = "failed"]
                      /\ db' = db
                 ELSE /\ rs' = [rs EXCEPT !.st[s] = "ok", !.src_id[s] = r.id]
                      /\ db' = [db EXCEPT !.src = r.rows]
    /\ UNCHANGED << fs, remote, job, cnt, ext, pool, sq, cache, gh >>

\* Res._do_action, "Wait all write operations completion": the result of
\* every future; the exception of a failed source leaves _do_action
ResWait ==
    LET listed == {rs.list[k] : k \in DOMAIN rs.list}
    IN  /\ rs.pc = "wait"
        /\ \A s \in listed : rs.st[s] \in {"ok", "failed"}
        /\ rs' = IF \E s \in listed : rs.st[s] = "failed" THEN ResEnd(rs, "SrcError")
                 ELSE [rs EXCEPT !.pc = "orphans"]
        /\ UNCHANGED << fs, db, remote, job, cnt, ext, pool, sq, cache, gh >>

RECURSIVE RemoveAll(_, _, _)
RemoveAll(f, store, ids) ==
    IF ids = {} THEN [f |-> f, store |-> store]
    ELSE LET id == Min(ids)
             r == remove_src(f, store, id)
         IN  RemoveAll(r.f, r.store, ids \ {id})

\* Res._do_action, "Remove orphans sources": Res._remove_src of every src row
\* of the resource whose id is not the src_id of a source of this run; then,
\* in an update, Res._update records the task in the res row
ResOrphans ==
    LET listed == {rs.list[k] : k \in DOMAIN rs.list}
        src_ids == {rs.src_id[s] : s \in listed}
        gone == {q.id : q \in {x \in get_src_by_res(db.src, rs.res.res_id) :
                                 x.id \notin src_ids}}
        r == RemoveAll(fs, db, gone)
        u == set_res(r.store.res, rs.tsk_id, rs.res.res_id, "None", "None", NoneArgs)
    IN  /\ rs.pc = "orphans"
        /\ fs' = r.f
        /\ db' = IF rs.update THEN [r.store EXCEPT !.res = u.rows] ELSE r.store
        /\ rs' = ResEnd(rs, "")
        /\ UNCHANGED << remote, job, cnt, ext, pool, sq, cache, gh >>

\* Tsk.__init__ and Tsk.apply of a remove whose name matches the res row id:
\* Res._remove reads the src rows of the resource
ResRemove(id) ==
    /\ ResIdle
    /\ db.tsk < MaxResTsk
    /\ \E row \in db.res :
          /\ row.id = id
          /\ rs' = [NewRes("remove", FALSE, FALSE,
                           ResObj(row.id, row.name, row.action, row.arguments),
                           "remove", "")
                    EXCEPT !.src_rows = {q.id : q \in get_src_by_res(db.src, row.id)}]
    /\ db' = [db EXCEPT !.tsk = @ + 1]
    /\ UNCHANGED << fs, remote, job, cnt, ext, pool, sq, cache, gh >>

\* one worker runs Res._remove_src(src_id)
ResRemoveSrc ==
    /\ rs.pc = "remove"
    /\ \E id \in rs.src_rows :
          LET r == remove_src(fs, db, id)
          IN  /\ fs' = r.f
              /\ db' = r.store
              /\ rs' = [rs EXCEPT !.src_rows = @ \ {id}]
    /\ UNCHANGED << remote, job, cnt, ext, pool, sq, cache, gh >>

\* Res._remove that deletes the res row without the result of its futures
ResDelResEarly ==
    /\ rs.pc = "remove"
    /\ db' = del_res(db, rs.res.res_id)
    /\ rs' = ResEnd(rs, "")
    /\ UNCHANGED << fs, remote, job, cnt, ext, pool, sq, cache, gh >>

\* Res._remove after its futures: DB.del_res
ResDelRes ==
    /\ rs.pc = "remove"
    /\ rs.src_rows = {}
    /\ db' = del_res(db, rs.res.res_id)
    /\ rs' = ResEnd(rs, "")
    /\ UNCHANGED << fs, remote, job, cnt, ext, pool, sq, cache, gh >>

ResNext ==
    \/ \E name \in Names, action \in CreateActions, force \in BOOLEAN,
          res_id \in HandedIds : ResCreate(name, action, force, res_id)
    \/ \E id \in 1..MaxResTsk, force \in BOOLEAN : ResUpdate(id, force)
    \/ GetSrcList
    \/ ResSubmit
    \/ \E s \in Srcs : SrcAct(s)
    \/ ResWait
    \/ ResOrphans
    \/ \E id \in 1..MaxResTsk : ResRemove(id)
    \/ ResRemoveSrc
    \/ ResDelRes

ResInit ==
    /\ fs = [p \in Paths |-> NoNames]
    /\ db = [tsk |-> 0, res |-> {}, src |-> {}, dst |-> {}]
    /\ remote = [s \in Srcs |-> NoRemote(0)]
    /\ job = [s \in Srcs |-> IdleJob]
    /\ cnt = [runs |-> 0, edits |-> 0, remote |-> 0, crashes |-> 0]
    /\ ext = NoCall
    /\ pool = NoTsk
    /\ rs = [pc |-> "idle"]
    /\ sq = NoSql /\ cache = NoCache /\ gh = NoApi

SpecRes == ResInit /\ [][ResNext]_vars

\* ------------------------------------------------------- upsert (_db.py)
\* SpecSql applies one store call to a table: _sql_insert_or_update on a src
\* table, with or without row id and reference row, or DB.set_dst on a dst
\* table with the reference row Dst.__init__ has read for the path.

SqlIds == 1..MaxRows

\* the tables: sets of rows with distinct ids
SrcRowsOf(id) ==
    {[id |-> id, tsk_id |-> 1, res_id |-> 1, name |-> n, revision |-> v] :
        n \in Srcs, v \in Versions}
DstRowsOf(id) ==
    {[id |-> id, tsk_id |-> 1, res_id |-> 1, src_id |-> s, path |-> p,
      digest |-> Hash(Body(1))] : s \in SqlIds, p \in Paths}
Tables(RowsOf(_)) ==
    {tb \in SUBSET UNION {RowsOf(i) : i \in SqlIds} :
        \A r, q \in tb : r.id = q.id => r = q}

\* the values of a call: None or a value, column by column
SrcVals ==
    [tsk_id : {0, 2}, res_id : {0, 1}, name : {"None"} \cup Srcs,
     revision : {0} \cup Versions]

SqlCalls ==
    UNION {[pc : {"call"}, op : {"upsert"}, rows : {tb}, row_id : {0} \cup SqlIds,
            ref : {NoSrcRow} \cup tb, vals : SrcVals,
            out : {tb}, id : {0}, exc : {""}] : tb \in Tables(SrcRowsOf)}
    \cup UNION {[pc : {"call"}, op : {"set_dst"}, rows : {tb}, row_id : {0},
                 ref : {get_dst(tb, p)},
                 vals : {[tsk_id |-> 2, res_id |-> 1, src_id |-> s, path |-> p,
                          digest |-> Hash(Body(2))] : s \in SqlIds},
                 out : {tb}, id : {0}, exc : {""}] :
                   tb \in Tables(DstRowsOf), p \in Paths}

SqlInit ==
    /\ fs = [p \in Paths |-> NoNames]
    /\ db = [tsk |-> 0, res |-> {}, src |-> {}, dst |-> {}]
    /\ remote = [s \in Srcs |-> NoRemote(0)]
    /\ job = [s \in Srcs |-> IdleJob]
    /\ cnt = [runs |-> 0, edits |-> 0, remote |-> 0, crashes |-> 0]
    /\ ext = NoCall
    /\ pool = NoTsk
    /\ rs = NoRes
    /\ sq \in SqlCalls
    /\ cache = NoCache /\ gh = NoApi

\* _sql_insert_or_update(table, row_id, ref_values, **values)
Upsert ==
    /\ sq.pc = "call" /\ sq.op = "upsert"
    /\ \E attr \in AttrOutcomes :
          LET r == sql_insert_or_update(sq.rows, sq.row_id, sq.ref, sq.vals, SrcNone,
                                        attr)
          IN  sq' = [sq EXCEPT !.pc = "done", !.out = r.rows, !.id = r.id,
                               !.exc = r.exc]
    /\ UNCHANGED << fs, db, remote, job, cnt, ext, pool, rs, cache, gh >>

\* DB.set_dst(tsk_id, res_id, src_id, path, digest, ..., ref_values)
SetDstCall ==
    /\ sq.pc = "call" /\ sq.op = "set_dst"
    /\ \E attr \in AttrOutcomes :
          LET r == set_dst(sq.rows, sq.ref, sq.vals.tsk_id, sq.vals.res_id,
                           sq.vals.src_id, sq.vals.path, sq.vals.digest, attr)
          IN  sq' = [sq EXCEPT !.pc = "done", !.out = r.rows, !.id = r.id,
                               !.exc = r.exc]
    /\ UNCHANGED << fs, db, remote, job, cnt, ext, pool, rs, cache, gh >>

SqlNext == Upsert \/ SetDstCall

SpecSql == SqlInit /\ [][SqlNext]_vars

\* ------------------------------------------------------------- properties
\* the action of s has ended
Done(s) == job[s].pc = "idle" /\ job[s].result # "none"

\* the file holds the whole body of a version the platform served
Installed(f) == Exists(f) /\ \E v \in Versions : f.data = Body(v)

\* C1: at every commit point no two dst rows of the store have the same path.
C1_PathUniqueness ==
    \A r \in db.dst : \A q \in db.dst : r.path = q.path => r = q

C3_AtomicSwap ==
    [][\A s \in Srcs :
        (job[s].pc = "move_part" /\ job'[s] # job[s] /\ job'[s].result # "failed")
        => LET d == job[s].dsts[job[s].i]
               f == fs[d.path]
           IN  (d.update /\ d.path_bak)
               => /\ Exists(f.file)
                  /\ f.file.data \in {f.bak.data, f.part.data}]_vars

C5_IdempotentUpdate ==
    \A s \in Srcs :
        (/\ Done(s) /\ job[s].update /\ ~job[s].force
         /\ job[s].db_info # NoSrcRow
         /\ job[s].revision = job[s].db_info.revision)
        => /\ job[s].exc = ""
           /\ job[s].result = "skipped"
           /\ get_src(db.src, ResOf(s), s) = job[s].db_info

C7_NoEscape ==
    (ext.pc = "done" /\ ~ext.trusted /\ ext.exc = "") => Within(ext.path)

\* the running action of s has moved new content to p
Committed(s, p) ==
    /\ job[s].pc \in {"clear", "set_src", "set_dst"}
    /\ \E k \in 1..Len(job[s].dsts) : job[s].dsts[k].path = p /\ job[s].dsts[k].update

Legal(f) ==
    \/ ~Exists(f.part) /\ ~Exists(f.bak)
    \/ Exists(f.part) /\ ~Exists(f.bak)
    \/ Exists(f.file) /\ ~Exists(f.part) /\ Exists(f.bak)

\* C9: at every step of the life of a Dst the names of its path are in one of
\* the three states: the original only, the original and the staging file, the
\* new file and the backup.
C9_LegalStates ==
    \A s \in Srcs :
        \A k \in 1..Len(LiveDsts(job[s])) : Legal(fs[LiveDsts(job[s])[k].path])

\* C10: after cancel() the path holds the original content (the backup when
\* move has made one) and neither the staging file nor the backup exists.
C10_CancelRollback ==
    [][\A s \in Srcs :
        (Running(s) /\ job[s].action = "api" /\ job'[s].result = "cancelled")
        => LET d == LiveDsts(job[s])[1]
               f == fs[d.path]
               orig == IF d.path_bak /\ Exists(f.bak) THEN f.bak ELSE f.file
               g == fs'[d.path]
           IN  /\ Exists(g.file) = Exists(orig)
               /\ g.file.data = orig.data
               /\ ~Exists(g.part)
               /\ ~Exists(g.bak)]_vars

\* the condition on which SrcBase._cancel is meant to skip the action
SkipCondition(j) ==
    /\ j.update /\ ~j.force
    /\ j.db_info # NoSrcRow
    /\ j.revision = j.db_info.revision

\* C12: the step that evaluates the skip guard skips the action, touching
\* neither the store nor the disk, when update is true, force is false, a src
\* row exists and its revision is the current one; in every other case the
\* action goes on.
C12_SkipIff ==
    [][\A s \in Srcs :
        (job[s].pc = "guard" /\ job'[s] # job[s])
        => IF SkipCondition(job[s])
           THEN /\ job'[s].result = "skipped"
                /\ job'[s].cur = NoDst /\ job'[s].dsts = << >>
                /\ job'[s].body = EmptyMap
                /\ db' = db /\ fs' = fs
           ELSE /\ job'[s].result = "none"
                /\ job'[s].pc # "idle"]_vars

\* no other source has run: what is on disk is the work of s and of the user
Alone(s) == \A q \in Srcs \ {s} : job[q].pc = "idle" /\ job[q].result = "none"

C19_RejectedLeavesNothing ==
    [][\A s \in Srcs :
        (/\ job[s].pc = "init"
         /\ job'[s].result = "failed" /\ job'[s].exc = "PermissionError")
        => /\ \A p \in DOMAIN job[s].body :
                 /\ fs'[p].file = job[s].before[p]
                 /\ ~Exists(fs'[p].part)
           /\ db' = db
           /\ get_src(db'.src, ResOf(s), s) = job[s].db_info]_vars

OnlyRes(s) ==
    \A q \in Srcs : ResOf(q) # ResOf(s) => job[q].pc = "idle" /\ job[q].result = "none"

FailedPairs ==
    {x \in UNION {{<< r, s >> : s \in SrcsOf(r)} : r \in PoolRes} :
        pool.st[SrcItem(x[1], x[2])] = "failed"}

\* the resources whose Res.apply was submitted
Submitted == {pool.futures[i] : i \in 1..Len(pool.futures)}

C16_AbsentRefused ==
    (/\ pool.pc = "done" /\ ~pool.handed
     /\ pool.action \in {"update", "remove"}
     /\ \A n \in pool.names : get_res_by_glob(db.res, n) = {})
    => /\ pool.exc.type = "Invalid"
       /\ db.res = {} /\ db.src = {} /\ db.dst = {}

\* the work item a running Res.apply waits for in future.result(), when it waits
Awaited(r) ==
    LET c == pool.rpc[r]
    IN  IF c.phase = "wait" THEN {SrcItem(r, SrcList(r)[c.i])}
        ELSE IF c.phase = "owait" THEN {OrphItem(r, SrcList(r)[c.i])}
        ELSE {}

\* the work items that hold a worker thread
Busy == {i \in Items : pool.st[i] = "running"}

\* every worker thread runs a Res.apply that waits for a work item which is
\* still in the queue
AllWait ==
    /\ Cardinality(Busy) = pool.workers
    /\ \A i \in Busy :
          /\ i[1] = "res"
          /\ Awaited(i[2]) # {}
          /\ \A a \in Awaited(i[2]) : pool.st[a] = "queued"

C31_AppliedOnce ==
    (pool.pc # "none" /\ pool.action \in {"update", "remove"})
    => \A i, k \in DOMAIN pool.futures :
          RowOf(pool.futures[i]) = RowOf(pool.futures[k]) => i = k

\* the running action of s is at the Dst.close of a file destination whose
\* content is written in full
AtClose(s) ==
    /\ job[s].pc = "write" /\ job[s].cur.type = "file"
    /\ job[s].cur.pos = BodyLen

\* the step is the Dst.close of the destination of s
ClosedBy(s) ==
    /\ AtClose(s) /\ job'[s] # job[s]
    /\ job'[s].result \notin {"cancelled", "crashed"}

C30_CrashRecovery ==
    [][\A s \in Srcs :
        LET j == job[s]
        IN  (/\ j.action = "api" /\ j.crashed
             /\ j.pc = "write" /\ j.cur.pos = 0
             /\ job'[s].result = "cancelled"
             /\ Exists(j.before["p1"]))
            => /\ Exists(fs'["p1"].file)
               /\ fs'["p1"].file.data = j.before["p1"].data]_vars

\* C32: when a create has failed in its action (the platform did not resolve
\* the name, or a source action failed), the res table holds no row of the
\* name that it did not hold before the create.
C32_FailedCreate ==
    (/\ rs.pc = "done" /\ rs.task \in CreateActions
     /\ rs.exc \in {"NotFound", "SrcError"})
    => {r \in db.res : r.name = rs.res.name} \subseteq rs.before

\* C33: between the tasks no two res rows have the same name, and every dst
\* row carries the id of a res row.
C33_OneRowPerName ==
    ResIdle
    => /\ \A r, q \in db.res : r.name = q.name => r.id = q.id
       /\ \A d \in db.dst : \E r \in db.res : r.id = d.res_id

\* C34: an update of a resource that has a src row and listed sources submits
\* the action of each source with the action of the res row and with the
\* options its arguments column stands for (the options of the create).
C34_UpdateReplays ==
    (/\ rs.pc \in {"wait", "orphans", "done"} /\ rs.task = "update"
     /\ rs.list # << >>
     /\ get_src_by_res(db.src, rs.res.res_id) # {})
    => \A k \in DOMAIN rs.list :
          /\ rs.call[rs.list[k]].action = rs.res.action
          /\ rs.call[rs.list[k]].arguments = Dict(rs.res.arguments.items)

\* the row an upsert with a row id or a reference row is to change, and the
\* columns it is to change
Target == IF sq.row_id # 0 THEN sq.row_id ELSE sq.ref.id
Differs ==
    {c \in DOMAIN sq.vals :
        /\ sq.vals[c] # SrcNone[c]
        /\ sq.ref # NoSrcRow => sq.vals[c] # sq.ref[c]}

\* C35: an upsert with a row id or a reference row leaves the table as it
\* was but for the row of that id, whose columns with a new value that is not
\* None and differs from the reference row hold the new value, the others
\* what they held.
C35_UpsertFrame ==
    (/\ sq.pc = "done" /\ sq.op = "upsert"
     /\ sq.row_id # 0 \/ sq.ref # NoSrcRow
     /\ sq.row_id # 0 /\ sq.ref # NoSrcRow => sq.row_id = sq.ref.id)
    => sq.out = {IF r.id = Target
                 THEN [c \in DOMAIN r |-> IF c \in Differs THEN sq.vals[c] ELSE r[c]]
                 ELSE r : r \in sq.rows}

\* C36: DB.set_dst called without reference row, for a path that has no dst
\* row, adds to the table one row with the path, the digest, the res_id and
\* the src_id of the call, and returns the id of that row, which no row had.
C36_SetDstInserts ==
    (/\ sq.pc = "done" /\ sq.op = "set_dst"
     /\ sq.ref = NoDstRow
     /\ \A r \in sq.rows : r.path # sq.vals.path)
    => \E r \in sq.out :
          /\ sq.out = sq.rows \cup {r}
          /\ r.id = sq.id /\ \A q \in sq.rows : q.id # r.id
          /\ r.path = sq.vals.path /\ r.digest = sq.vals.digest
          /\ r.res_id = sq.vals.res_id /\ r.src_id = sq.vals.src_id

\* C37: every dst row names, with its src_id, a src row of its resource, and
\* every src row names a res row with its res_id, at every point of a
\* sequence of create, update and remove tasks.
C37_NoDangling ==
    /\ \A d \in db.dst : \E s \in db.src : s.id = d.src_id /\ s.res_id = d.res_id
    /\ \A s \in db.src : \E r \in db.res : r.id = s.res_id

\* a remove has deleted the src rows and the res row of its resource, and
\* the rows of another resource are still there
C37_Witness ==
    /\ rs.pc = "done" /\ rs.task = "remove" /\ rs.exc = ""
    /\ \E s \in rs.srcs_before : s.res_id = rs.res.res_id /\ s \notin db.src
    /\ \A r \in db.res : r.id # rs.res.res_id
    /\ db.src # {}

-----------------------------------------------------------------------------
\* The disk cache of src/nun/_srg.py: the two files of one name, one per
\* expiry class ("s" short, "l" long), each with its modification time and
\* the object it holds. Times are in seconds.

CACHE_SHORT_EXPIRY == 60
CACHE_LONG_EXPIRY == 172800

\* the time between two calls: a second, or one of the two delays
Delays == {1, CACHE_SHORT_EXPIRY, CACHE_LONG_EXPIRY}

Modes == << "s", "l" >>
ModeSet == {"s", "l"}

NotCached == [mtime |-> -1, obj |-> 0]

\* _get_expiry(): the oldest modification time that is not expired
get_expiry(now) ==
    [mode \in ModeSet |-> IF mode = "s" THEN now - CACHE_SHORT_EXPIRY
                          ELSE now - CACHE_LONG_EXPIRY]

\* the loop of get_cache over the modes of one name: obj = 0 is None
RECURSIVE get_cache(_, _, _)
get_cache(file, now, modes) ==
    IF modes = << >> THEN [obj |-> 0, mode |-> "", file |-> file]
    ELSE LET mode == Head(modes)
         IN  IF file[mode] = NotCached
             THEN get_cache(file, now, Tail(modes))
             ELSE IF file[mode].mtime < get_expiry(now)[mode]
             THEN get_cache([file EXCEPT ![mode] = NotCached], now, Tail(modes))
             ELSE [obj |-> file[mode].obj, mode |-> mode,
                   file |-> IF mode = "l"
                            THEN [file EXCEPT ![mode].mtime = now]
                            ELSE file]

\* set_cache(name, obj, long): writes the file of the class, and only it
set_cache(file, now, obj, long) ==
    [file EXCEPT ![IF long THEN "l" ELSE "s"] = [mtime |-> now, obj |-> obj]]

\* clear_cache(): removes the expired files
clear_cache(file, now) ==
    [mode \in ModeSet |-> IF file[mode] # NotCached
                             /\ file[mode].mtime < get_expiry(now)[mode]
                          THEN NotCached ELSE file[mode]]

NoLookup == [obj |-> 0, mode |-> "", age |-> 0, expired |-> {}]

\* time of the last write of the class or, for the long class, of the last
\* lookup that returned its entry if that is later
LastUse(mode) ==
    IF mode = "l" /\ cache.read > cache.wrote[mode] THEN cache.read
    ELSE cache.wrote[mode]

\* set_cache(name, obj, long=...) with a new object; objects are numbered in
\* the order of the calls
SetCache(long) ==
    /\ cache.pc # "none" /\ cache.sets < MaxSets
    /\ cache' = [cache EXCEPT
          !.pc = "set",
          !.sets = @ + 1,
          !.file = set_cache(@, cache.now, cache.sets + 1, long),
          !.wrote[IF long THEN "l" ELSE "s"] = cache.now,
          !.last = IF long THEN "l" ELSE "s"]
    /\ UNCHANGED << fs, db, remote, job, cnt, ext, pool, rs, sq, gh >>

\* get_cache(name)
GetCache ==
    /\ cache.pc # "none"
    /\ LET r == get_cache(cache.file, cache.now, Modes)
       IN  cache' = [cache EXCEPT
              !.pc = "got",
              !.file = r.file,
              !.read = IF r.mode = "l" THEN cache.now ELSE @,
              !.res = [obj |-> r.obj, mode |-> r.mode,
                       age |-> IF r.obj = 0 THEN 0
                               ELSE cache.now - LastUse(r.mode),
                       expired |-> {m \in ModeSet :
                                       /\ cache.file[m] # NotCached
                                       /\ r.file[m] = NotCached}]]
    /\ UNCHANGED << fs, db, remote, job, cnt, ext, pool, rs, sq, gh >>

\* Tsk.__exit__: clear_cache()
ClearCache ==
    /\ cache.pc # "none"
    /\ cache.file # clear_cache(cache.file, cache.now)
    /\ cache' = [cache EXCEPT !.pc = "idle",
                              !.file = clear_cache(@, cache.now)]
    /\ UNCHANGED << fs, db, remote, job, cnt, ext, pool, rs, sq, gh >>

\* time passes
Tick(d) ==
    /\ cache.pc # "none" /\ cache.ticks < MaxTicks
    /\ cache' = [cache EXCEPT !.pc = "idle", !.now = @ + d, !.ticks = @ + 1]
    /\ UNCHANGED << fs, db, remote, job, cnt, ext, pool, rs, sq, gh >>

SrgNext ==
    \/ \E long \in BOOLEAN : SetCache(long)
    \/ GetCache
    \/ ClearCache
    \/ \E d \in Delays : Tick(d)

SrgInit ==
    /\ fs = [p \in Paths |-> NoNames]
    /\ db = [tsk |-> 0, res |-> {}, src |-> {}, dst |-> {}]
    /\ remote = [s \in Srcs |-> NoRemote(0)]
    /\ job = [s \in Srcs |-> IdleJob]
    /\ cnt = [runs |-> 0, edits |-> 0, remote |-> 0, crashes |-> 0]
    /\ ext = NoCall
    /\ pool = NoTsk
    /\ rs = NoRes /\ sq = NoSql /\ gh = NoApi
    /\ cache = [pc |-> "idle", now |-> 0, ticks |-> 0, sets |-> 0,
                file |-> [mode \in ModeSet |-> NotCached],
                wrote |-> [mode \in ModeSet |-> -1], read |-> -1,
                last |-> "",
                res |-> NoLookup]

SpecSrg == SrgInit /\ [][SrgNext]_vars

\* C38: a lookup returns no entry older than the delay of its class, the
\* age of a long entry counting from its last returning lookup; the expired
\* entries it finds are removed, and when the entry of the key, the one of
\* its last set_cache, is one of them the lookup returns None.
C38_ExpiredNotReturned ==
    cache.pc = "got"
    => /\ cache.res.obj # 0
          => cache.res.age <= (IF cache.res.mode = "s" THEN CACHE_SHORT_EXPIRY
                               ELSE CACHE_LONG_EXPIRY)
       /\ \A m \in cache.res.expired : cache.file[m] = NotCached
       /\ cache.last \in cache.res.expired => cache.res.obj = 0

\* C39: a lookup that returns an object returns the object of the last
\* set_cache of the name, whatever the classes of the calls.
C39_MostRecentSet ==
    (cache.pc = "got" /\ cache.res.obj # 0) => cache.res.obj = cache.sets

-----------------------------------------------------------------------------
\* Plt._github_api and Plt._wait_rate_limit of src/nun/_plt/github.py: one
\* thread that calls the API of the platform. The platform chooses the
\* status of every answer, the X-RateLimit-Remaining header of a 403 and
\* the "remaining" of every poll of /rate_limit.

\* what get_cache(path) holds: nothing, an answer whose Date is younger than
\* 10 seconds, or an older one
Cached == {"none", "young", "old"}
\* the status of an answer; 304 answers a request with If-Modified-Since
Statuses == {200, 304, 403, 404, 500}
\* int(resp.headers.get('X-RateLimit-Remaining', '-1'))
Remainings == {-1, 0, 1}
\* int(resp.json()['resources']['core']['remaining'])
Polled == {0, 1}

\* a new call of _github_api(path): an answer younger than 10 seconds is
\* returned without a request
ApiCall(cached) ==
    /\ gh.pc \in {"idle", "done"} /\ gh.calls < MaxCalls
    /\ gh' = [gh EXCEPT
          !.pc = IF cached = "young" THEN "done" ELSE "request",
          !.calls = @ + 1, !.cached = cached,
          !.status = 0, !.exc = "", !.stored = "",
          !.out = IF cached = "young" THEN "cached" ELSE "",
          !.limited = FALSE, !.okpoll = FALSE]
    /\ UNCHANGED << fs, db, remote, job, cnt, ext, pool, rs, sq, cache >>

\* one turn of the "while True" of _github_api: the request and what the
\* code does with the answer
Request(status, remaining) ==
    /\ gh.pc = "request"
    /\ status = 304 => gh.cached = "old"
    /\ (status = 403 /\ remaining = 0) => gh.limits < MaxLimited
    /\ status # 403 => remaining = -1
    /\ LET raised == \/ status >= 400 /\ status \notin {403, 404}
                     \/ status = 403 /\ remaining # 0
           limit == status = 403 /\ remaining = 0
       IN  gh' = [gh EXCEPT
              !.pc = IF limit THEN "wait" ELSE "done",
              !.issued = @ + 1,
              !.retried = IF gh.limited THEN @ + 1 ELSE @,
              !.limits = IF limit THEN @ + 1 ELSE @,
              !.status = status,
              !.exc = IF raised THEN "HTTPError" ELSE "",
              !.out = IF raised \/ limit THEN ""
                      ELSE IF status = 304 THEN "cached" ELSE "answer",
              !.stored = IF raised \/ limit \/ status = 304 THEN ""
                         ELSE IF status < 400 THEN "l" ELSE "s",
              !.limited = limit,
              !.okpoll = FALSE]
    /\ UNCHANGED << fs, db, remote, job, cnt, ext, pool, rs, sq, cache >>

\* one turn of the "while True" of _wait_rate_limit, up to the end of
\* sleep(60): the warning is prepared once for the platform object
Sleep ==
    /\ gh.pc = "wait"
    /\ gh' = [gh EXCEPT !.pc = "poll", !.warned = TRUE]
    /\ UNCHANGED << fs, db, remote, job, cnt, ext, pool, rs, sq, cache >>

PollAnyReturns(remaining) ==
    /\ gh.pc = "poll"
    /\ remaining = 0 => gh.zeros < MaxPolls
    /\ gh' = [gh EXCEPT
          !.pc = "request",
          !.zeros = IF remaining = 0 THEN @ + 1 ELSE @,
          !.okpoll = remaining # 0]
    /\ UNCHANGED << fs, db, remote, job, cnt, ext, pool, rs, sq, cache >>

\* the request to /rate_limit and its test: _wait_rate_limit returns, and
\* the loop of _github_api continues with a new request, if remaining is
\* not 0; else it sleeps again
Poll(remaining) ==
    /\ gh.pc = "poll"
    /\ remaining = 0 => gh.zeros < MaxPolls
    /\ gh' = [gh EXCEPT
          !.pc = IF remaining # 0 THEN "request" ELSE "wait",
          !.zeros = IF remaining = 0 THEN @ + 1 ELSE @,
          !.okpoll = remaining # 0]
    /\ UNCHANGED << fs, db, remote, job, cnt, ext, pool, rs, sq, cache >>

\* the steps of the thread inside a call
ApiThread ==
    \/ \E status \in Statuses, remaining \in Remainings :
          Request(status, remaining)
    \/ Sleep
    \/ \E remaining \in Polled : Poll(remaining)

ApiNext ==
    \/ \E cached \in Cached : ApiCall(cached)
    \/ \E status \in Statuses, remaining \in Remainings :
          Request(status, remaining)
    \/ Sleep
    \/ \E remaining \in Polled : Poll(remaining)

ApiInit ==
    /\ fs = [p \in Paths |-> NoNames]
    /\ db = [tsk |-> 0, res |-> {}, src |-> {}, dst |-> {}]
    /\ remote = [s \in Srcs |-> NoRemote(0)]
    /\ job = [s \in Srcs |-> IdleJob]
    /\ cnt = [runs |-> 0, edits |-> 0, remote |-> 0, crashes |-> 0]
    /\ ext = NoCall
    /\ pool = NoTsk
    /\ rs = NoRes /\ sq = NoSql /\ cache = NoCache
    /\ gh = [pc |-> "idle", cached |-> "none", calls |-> 0, issued |-> 0,
             retried |-> 0, limits |-> 0, zeros |-> 0, warned |-> FALSE,
             limited |-> FALSE, okpoll |-> FALSE, status |-> 0, exc |-> "",
             out |-> "", stored |-> ""]

\* the thread of a call goes on running: no step of it waits for another
\* thread, and sleep(60) ends
SpecApiLive == ApiInit /\ [][ApiNext]_vars /\ WF_vars(ApiThread)

\* C40: after an answer 403 with X-RateLimit-Remaining 0, the request is
\* issued again only after a poll of /rate_limit that reported a remaining
\* above 0, and once such a poll has been seen the request is issued again.
C40_RetryAfterQuota ==
    /\ [][(gh.limited /\ gh'.issued # gh.issued) => gh.okpoll]_vars
    /\ \A n \in 0..(MaxCalls + MaxLimited) :
          (gh.limited /\ gh.okpoll /\ gh.issued = n) ~> (gh.issued = n + 1)

\* a request answered 403 with no request left has been issued again after
\* polls that reported 0 and then more, and answered 200
C40_Witness ==
    /\ gh.pc = "done" /\ gh.retried > 0 /\ gh.zeros > 0
    /\ gh.status = 200 /\ gh.stored = "l"

====
